---- MODULE Spec2Model ----
(***************************************************************************)
(* Push-notification server: the in-memory job registry                    *)
(* (services/scheduledNotifications.js), the Expo push dispatcher          *)
(* (utils/expoPushNotifications.js), the device token source               *)
(* (services/deviceManager.js) and the HTTP handlers of index.js that      *)
(* drive them.                                                             *)
(*                                                                         *)
(* The process is a single Node.js event loop: a synchronous function runs *)
(* to completion, an async function runs up to its next `await` and is     *)
(* resumed by a later step.  One action is one such run.                   *)
(***************************************************************************)
EXTENDS Integers, Sequences, FiniteSets, TLC

VARIABLES
    jobs,             \* ScheduledNotifications.jobs: name -> job handle (NULL: no handle)
    otherJobs,        \* number of entries of jobs under names outside Names
    handles,          \* the Job objects node-schedule has created, by handle id
    lastCall,         \* the registry call made by the step just taken, with what it returned
    serviceAvailable, \* ExpoPushNotification.serviceAvailable
    probe,            \* position of ExpoPushNotification.initializeService
    sends,            \* the sendNotifications calls in flight or just completed
    initialized,      \* DeviceManager.initialized, and the position of its initializeService
    devices,          \* DeviceManager.devices: the tokens stored, in insertion order
    reqs,             \* the POST /api/notifications/schedule/exchange-rate requests
    updaterJob,       \* ExchangeRateUpdater.job: NULL or the handle start() stored
    procs,            \* the startup sequence and the POST /api/register-push-token requests
    fires,            \* per Job handle, the outcomes of the runs of its callback, oldest first
    now,              \* the wall clock, in minutes since a midnight UTC
    btc,              \* BTCPriceMonitor: the alert memory, the poll in progress and the polls made
    fetch,            \* per feed service, the fetch with retry in progress and the cache of the rates service
    rcpt              \* the getPushNotificationReceipts call in progress or just returned

vars == <<jobs, otherJobs, handles, lastCall, serviceAvailable, probe, sends,
          initialized, devices, reqs, updaterJob, procs, fires,
          now,
          btc,
          fetch,
          rcpt>>

-----------------------------------------------------------------------------
(* Bounds of the model *)

\* Job objects node-schedule creates in one run.
MaxHandles == 2
\* sendNotifications calls of fire callbacks in flight at once.
MaxSends == 1
\* Longest message list handed to sendNotifications by a direct caller.
MaxMsgs == 4
\* Messages per chunk of expo.chunkPushNotifications (the SDK's limit, scaled down).
ChunkLimit == 2
\* Runs of one Job's callback that are followed.
MaxFires == 2
\* The last minute the clock is followed to.
MaxNow == 1560
\* The last minute the clock is followed to while the price is polled.
MaxPollNow == 35
\* Successful polls of the price that are followed.
MaxPolls == 3
\* The clock's last minute in runs of the test client's daily request.
MaxTestNow == 61
\* Sends in flight where the fires of one job are followed side by side.
MaxOverlap == 2

(* Program constants *)

\* SCHEDULE_CONFIG.MAX_JOBS
MAX_JOBS == 100

-----------------------------------------------------------------------------
(* Input values *)

\* The value of a map entry whose scheduleJob call returned null, and of a
\* message createMessage refused to build.
NULL == 0

\* Job names the model follows one by one; "" is the missing (falsy) name.
Names == {"a", "b"}
NameArgs == Names \cup {""}

\* Tokens: "t1", "t2" have the envelope ExponentPushToken[...]; "alt" has the
\* envelope ExpoPushToken[...], which the SDK accepts as well; "bad" has
\* neither; "" is the falsy token; "odd" is a value on which the SDK's check
\* raises an error.
GoodTokens == {"t1", "t2"}
AltToken == "alt"
Tokens == GoodTokens \cup {AltToken, "bad", "", "odd"}

\* A pushTokens argument that is not an array.
NotArray == <<"#notarray">>

TokenLists ==
    { <<>>, <<"t1">>, <<"t1", "t2">>, <<"t1", "bad">>, <<"bad", "t1">>,
      <<"">>, <<"odd">>, NotArray }

\* title/body/data of a job, as one value.
Payloads == {"p1", "p2"}

\* Cron expressions: "cron" parses to a recurrence; "garbage" does not parse
\* and is no date either.
CronExprs == {"cron", "garbage"}

\* hour/minute arguments of scheduleDaily: 09:00, and an hour and a minute
\* outside the clock.
DailyTimes == { <<9, 0>>, <<24, 0>>, <<9, 60>> }

-----------------------------------------------------------------------------
(* utils/expoPushNotifications.js: token check and message construction *)

\* Expo.isExpoPushToken of the SDK: "true", "false", or "throws".
ExpoCheck(token) ==
    IF token \in GoodTokens \cup {AltToken} THEN "true"
    ELSE IF token = "odd" THEN "throws"
    ELSE "false"

\* Variant: the SDK's error is not caught.
isExpoPushTokenNoCatch(token) ==
    IF token = "" THEN "false" ELSE ExpoCheck(token)

\* What isExpoPushToken does with a token: returns "true" or "false", or
\* "throws".  `if (!token) return false`, then the SDK's check inside
\* try/catch.
isExpoPushTokenOutcome(token) ==
    IF token = "" THEN "false"
    ELSE IF ExpoCheck(token) = "throws" THEN "false"
    ELSE ExpoCheck(token)

\* The value isExpoPushToken returns to a caller's condition.
isExpoPushToken(token) == isExpoPushTokenOutcome(token) = "true"

\* The null createMessage returns for a token it rejects.
NullMsg == [to |-> "", payload |-> "null"]

createMessage(pushToken, payload) ==
    IF ~isExpoPushToken(pushToken) THEN NullMsg
    ELSE [to |-> pushToken, payload |-> payload]

-----------------------------------------------------------------------------
(* services/scheduledNotifications.js: validation *)

jobsSize == Cardinality(DOMAIN jobs) + otherJobs

\* Variant: the duplicate-name check is missing.
validateJobNameNoDuplicate(name) ==
    IF name = "" THEN "name required"
    ELSE IF jobsSize >= MAX_JOBS THEN "max jobs"
    ELSE "ok"

\* Variant: the cap is compared with > instead of >=.
validateJobNameOffByOne(name) ==
    IF name = "" THEN "name required"
    ELSE IF name \in DOMAIN jobs THEN "already exists"
    ELSE IF jobsSize > MAX_JOBS THEN "max jobs"
    ELSE "ok"

_validateJobName(name) ==
    IF name = "" THEN "name required"
    ELSE IF name \in DOMAIN jobs THEN "already exists"
    ELSE IF jobsSize >= MAX_JOBS THEN "max jobs"
    ELSE "ok"

\* Variant: only the first token is checked.
validateTokensFirstOnly(tokens) ==
    IF tokens = NotArray \/ Len(tokens) = 0 THEN "tokens required"
    ELSE IF ~isExpoPushToken(tokens[1]) THEN "invalid token"
    ELSE "ok"

_validateTokens(tokens) ==
    IF tokens = NotArray \/ Len(tokens) = 0 THEN "tokens required"
    ELSE IF \E i \in 1..Len(tokens) : ~isExpoPushToken(tokens[i]) THEN "invalid token"
    ELSE "ok"

\* Variant: the list is examined from its end.
validateTokensNamedLastFirst(tokens) ==
    IF tokens = NotArray \/ Len(tokens) = 0 THEN ""
    ELSE LET bad == {i \in 1..Len(tokens) : ~isExpoPushToken(tokens[i])}
         IN  IF bad = {} THEN ""
             ELSE tokens[CHOOSE i \in bad : \A j \in bad : j <= i]

\* The token the error thrown by _validateTokens names: forEach examines the
\* tokens in list order and the first refused one throws; "" when the error
\* names none or nothing is thrown.
RECURSIVE forEachThrows(_)
forEachThrows(tokens) ==
    IF Len(tokens) = 0 THEN ""
    ELSE IF ~isExpoPushToken(Head(tokens)) THEN Head(tokens)
    ELSE forEachThrows(Tail(tokens))

_validateTokensNamed(tokens) ==
    IF tokens = NotArray \/ Len(tokens) = 0 THEN "" ELSE forEachThrows(tokens)

\* new schedule.RecurrenceRule(expression) stores its argument and never
\* throws, so the catch is never entered.
_validateCronExpression(expression) == "ok"

\* node-schedule: scheduleJob returns the Job when the spec yields a next
\* invocation and null otherwise.
CronParses(expression) == expression = "cron"
RuleValid(hour, minute) == hour \in 0..23 /\ minute \in 0..59

-----------------------------------------------------------------------------
(* services/scheduledNotifications.js: the registry operations *)

\* `token` is the token a thrown 'Invalid push token' error names.
NoCall == [op |-> "none", name |-> "", result |-> "", token |-> ""]

\* Time: a day in minutes, and the offset of SCHEDULE_CONFIG.DEFAULT_TIMEZONE
\* (Asia/Shanghai, UTC+8, no daylight saving) from UTC.
DayMinutes == 24 * 60
TzOffset == 8 * 60

\* Minute of the day of instant t in the rule's timezone.
LocalMinute(t) == (t + TzOffset) % DayMinutes

\* Variant: the rule's tz is not applied (the minute of the day in UTC).
nextInvocationDateNoTz(trigger, base) ==
    IF trigger.kind # "daily" THEN -1
    ELSE LET target == trigger.hour * 60 + trigger.minute
             cur == base % DayMinutes
         IN  IF target > cur THEN base + (target - cur)
             ELSE base + (target - cur) + DayMinutes

\* RecurrenceRule._nextInvocationDate(base) of a rule with hour, minute,
\* second 0 and tz: the search starts just after base and stops at the first
\* instant whose local time matches.  A cron trigger's time is not followed
\* (-1).
_nextInvocationDate(trigger, base) ==
    IF trigger.kind # "daily" THEN -1
    ELSE LET target == trigger.hour * 60 + trigger.minute
             cur == LocalMinute(base)
         IN  IF target > cur THEN base + (target - cur)
             ELSE base + (target - cur) + DayMinutes

DailyTrigger(hour, minute) == [kind |-> "daily", hour |-> hour, minute |-> minute]
CronTrigger == [kind |-> "cron", hour |-> -1, minute |-> -1]

\* The Job scheduleJob returns: its pending invocation is computed from the
\* time of the call.
Handle(name, trigger, tokens, payload) ==
    [name |-> name, trigger |-> trigger, tokens |-> tokens, payload |-> payload,
     armed |-> TRUE, due |-> FALSE, next |-> _nextInvocationDate(trigger, now)]

\* this.jobs.set(name, job)
jobsSet(name, job) ==
    [n \in DOMAIN jobs \cup {name} |-> IF n = name THEN job ELSE jobs[n]]

\* this.jobs.delete(name)
jobsDelete(name) == [n \in DOMAIN jobs \ {name} |-> jobs[n]]

\* What scheduleDaily returns or throws: an error message, "ok" (a Job), or
\* "null" (scheduleJob returned null).
scheduleDailyResult(name, hour, minute, pushTokens) ==
    IF _validateJobName(name) # "ok" THEN _validateJobName(name)
    ELSE IF _validateTokens(pushTokens) # "ok" THEN _validateTokens(pushTokens)
    ELSE IF RuleValid(hour, minute) THEN "ok"
    ELSE "null"

\* What scheduleCustom returns or throws.
scheduleCustomResult(name, cronExpression, pushTokens) ==
    IF _validateJobName(name) # "ok" THEN _validateJobName(name)
    ELSE IF _validateTokens(pushTokens) # "ok" THEN _validateTokens(pushTokens)
    ELSE IF _validateCronExpression(cronExpression) # "ok"
         THEN _validateCronExpression(cronExpression)
    ELSE IF CronParses(cronExpression) THEN "ok"
    ELSE "null"

\* The effect of a schedule call with the given result on the job map and on
\* the scheduler: a thrown error changes nothing; otherwise the value
\* scheduleJob returned is stored under the name.
scheduleEffect(result, name, trigger, pushTokens, payload) ==
    IF result = "ok"
    THEN /\ Len(handles) < MaxHandles
         /\ handles' = Append(handles, Handle(name, trigger, pushTokens, payload))
         /\ jobs' = jobsSet(name, Len(handles) + 1)
    ELSE IF result = "null"
    THEN /\ jobs' = jobsSet(name, NULL)
         /\ UNCHANGED handles
    ELSE UNCHANGED <<jobs, handles>>

scheduleDaily(name, hour, minute, pushTokens, payload) ==
    scheduleEffect(scheduleDailyResult(name, hour, minute, pushTokens),
                   name, DailyTrigger(hour, minute), pushTokens, payload)

scheduleCustom(name, cronExpression, pushTokens, payload) ==
    scheduleEffect(scheduleCustomResult(name, cronExpression, pushTokens),
                   name, CronTrigger, pushTokens, payload)

\* cancelJob returns true exactly when the map holds a (truthy) Job.
cancelJobResult(name) == name \in DOMAIN jobs /\ jobs[name] # NULL

\* Variant: the entry is deleted but job.cancel() is not called.
cancelJobKeepsTimer(name) ==
    IF cancelJobResult(name)
    THEN jobs' = jobsDelete(name) /\ UNCHANGED handles
    ELSE UNCHANGED <<jobs, handles>>

\* Variant: job.cancel() is called but the entry is not deleted.
cancelJobKeepsEntry(name) ==
    IF cancelJobResult(name)
    THEN /\ handles' = [handles EXCEPT ![jobs[name]].armed = FALSE]
         /\ UNCHANGED jobs
    ELSE UNCHANGED <<jobs, handles>>

\* job.cancel() clears the Job's pending invocations (its timer), whether or
\* not their time has been reached; jobs.delete(name).
cancelJob(name) ==
    IF cancelJobResult(name)
    THEN /\ handles' = [handles EXCEPT ![jobs[name]].armed = FALSE]
         /\ jobs' = jobsDelete(name)
    ELSE UNCHANGED <<jobs, handles>>

\* getActiveJobs reads job.nextInvocation() of every entry: a TypeError on a
\* null entry, else the listing.
getActiveJobsResult ==
    IF \E n \in DOMAIN jobs : jobs[n] = NULL THEN "TypeError" ELSE "ok"

getActiveJobsNames == IF getActiveJobsResult = "ok" THEN DOMAIN jobs ELSE {}

-----------------------------------------------------------------------------
(* utils/expoPushNotifications.js: sendNotifications *)

\* Variant: the availability flag is not consulted.
validateNotificationsIgnoresAvailability(messages) ==
    IF Len(messages) = 0 THEN FALSE ELSE TRUE

_validateNotifications(messages) ==
    IF Len(messages) = 0 THEN FALSE
    ELSE IF ~serviceAvailable THEN FALSE
    ELSE TRUE

\* expo.chunkPushNotifications: consecutive runs of at most ChunkLimit
\* messages (every message here has one recipient).
RECURSIVE chunkPushNotifications(_)
chunkPushNotifications(messages) ==
    IF Len(messages) = 0 THEN <<>>
    ELSE IF Len(messages) <= ChunkLimit THEN <<messages>>
    ELSE <<SubSeq(messages, 1, ChunkLimit)>>
         \o chunkPushNotifications(SubSeq(messages, ChunkLimit + 1, Len(messages)))

\* The SDK reads message.to of every message: a TypeError on a null message.
ChunkingThrows(messages) == \E i \in 1..Len(messages) : messages[i] = NullMsg

\* The tickets the gateway returns for a chunk it accepted: one per message,
\* in the chunk's order.
TicketsOf(chunk) == [i \in 1..Len(chunk) |-> [id |-> chunk[i].to]]

\* A call that has returned: its result is `tickets`.
SendDone(owner, messages) ==
    [owner |-> owner, msgs |-> messages, avail |-> serviceAvailable,
     chunks |-> <<>>, next |-> 1, tickets |-> <<>>, attempts |-> 0,
     failed |-> {}, st |-> "done"]

\* sendNotifications up to its first await.  `owner` is the handle whose fire
\* callback made the call, 0 for any other caller; `avail` remembers the
\* availability flag the call saw; `attempts` counts the gateway sends begun.
sendNotifications(owner, messages) ==
    IF ~_validateNotifications(messages) THEN SendDone(owner, messages)
    ELSE IF ChunkingThrows(messages) THEN SendDone(owner, messages)
    ELSE [owner |-> owner, msgs |-> messages, avail |-> serviceAvailable,
          chunks |-> chunkPushNotifications(messages), next |-> 1,
          tickets |-> <<>>, attempts |-> 1, failed |-> {}, st |-> "running"]

\* Variant: a failed chunk is not caught inside the loop, so the outer catch
\* ends the call with an empty result.
sendChunkResumedAbortsOnFailure(s, ok) ==
    LET last == s.next = Len(s.chunks)
    IN  IF ~ok
        THEN [s EXCEPT !.tickets = <<>>, !.failed = @ \cup {s.next},
                       !.next = @ + 1, !.st = "done"]
        ELSE [s EXCEPT !.tickets = @ \o TicketsOf(s.chunks[s.next]),
                       !.next = @ + 1,
                       !.attempts = IF last THEN @ ELSE @ + 1,
                       !.st = IF last THEN "done" ELSE "running"]

\* The loop body of sendNotifications resumed by the gateway's answer to
\* chunk `next`: the tickets are appended, or the error is logged, and the
\* loop goes on to the next chunk or returns.
sendChunkResumed(s, ok) ==
    LET last == s.next = Len(s.chunks)
    IN  [s EXCEPT !.tickets = IF ok THEN @ \o TicketsOf(s.chunks[s.next]) ELSE @,
                  !.failed = IF ok THEN @ ELSE @ \cup {s.next},
                  !.next = @ + 1,
                  !.attempts = IF last THEN @ ELSE @ + 1,
                  !.st = IF last THEN "done" ELSE "running"]

RemoveAt(seq, i) == SubSeq(seq, 1, i - 1) \o SubSeq(seq, i + 1, Len(seq))

-----------------------------------------------------------------------------
(* Actions: calls on the registry *)

Call(op, name, result) == [op |-> op, name |-> name, result |-> result, token |-> ""]

\* The record of a schedule call: an 'Invalid push token' error carries the
\* token it names.
ScheduleCall(op, name, result, pushTokens) ==
    [Call(op, name, result) EXCEPT
       !.token = IF result = "invalid token" THEN _validateTokensNamed(pushTokens) ELSE ""]

ScheduleDailyCall(name, hour, minute, pushTokens, payload) ==
    /\ scheduleDaily(name, hour, minute, pushTokens, payload)
    /\ lastCall' = ScheduleCall("scheduleDaily", name,
                                scheduleDailyResult(name, hour, minute, pushTokens),
                                pushTokens)
    /\ UNCHANGED <<otherJobs, serviceAvailable, probe, sends, initialized, devices, reqs,
                   updaterJob, procs, fires, now, btc, fetch, rcpt>>

ScheduleCustomCall(name, cronExpression, pushTokens, payload) ==
    /\ scheduleCustom(name, cronExpression, pushTokens, payload)
    /\ lastCall' = ScheduleCall("scheduleCustom", name,
                                scheduleCustomResult(name, cronExpression, pushTokens),
                                pushTokens)
    /\ UNCHANGED <<otherJobs, serviceAvailable, probe, sends, initialized, devices, reqs,
                   updaterJob, procs, fires, now, btc, fetch, rcpt>>

CancelJobCall(name) ==
    /\ cancelJob(name)
    /\ lastCall' = Call("cancelJob", name, IF cancelJobResult(name) THEN "true" ELSE "false")
    /\ UNCHANGED <<otherJobs, serviceAvailable, probe, sends, initialized, devices, reqs,
                   updaterJob, procs, fires, now, btc, fetch, rcpt>>

GetActiveJobsCall ==
    /\ lastCall' = Call("getActiveJobs", "", getActiveJobsResult)
    /\ UNCHANGED <<jobs, otherJobs, handles, serviceAvailable, probe, sends,
                   initialized, devices, reqs, updaterJob, procs, fires, now, btc,
                   fetch, rcpt>>

\* A call of expoPushNotifications.isExpoPushToken(token).
IsExpoPushTokenCall(token) ==
    /\ lastCall' = Call("isExpoPushToken", token, isExpoPushTokenOutcome(token))
    /\ UNCHANGED <<jobs, otherJobs, handles, serviceAvailable, probe, sends,
                   initialized, devices, reqs, updaterJob, procs, fires, now, btc,
                   fetch, rcpt>>

\* A schedule call with valid arguments under a name outside Names that is
\* not in the map: only the number of such entries is kept.
ScheduleOther ==
    /\ lastCall' = Call("scheduleCustom", "#other", _validateJobName("#other"))
    /\ otherJobs' = IF _validateJobName("#other") = "ok" THEN otherJobs + 1 ELSE otherJobs
    /\ UNCHANGED <<jobs, handles, serviceAvailable, probe, sends, initialized, devices, reqs,
                   updaterJob, procs, fires, now, btc, fetch, rcpt>>

\* cancelJob of a name outside Names that is in the map.
CancelOther ==
    /\ otherJobs > 0
    /\ otherJobs' = otherJobs - 1
    /\ lastCall' = Call("cancelJob", "#other", "true")
    /\ UNCHANGED <<jobs, handles, serviceAvailable, probe, sends, initialized, devices, reqs,
                   updaterJob, procs, fires, now, btc, fetch, rcpt>>

-----------------------------------------------------------------------------
(* Actions: the scheduler's timers and the fire callbacks *)

\* The next invocation time of an armed Job is reached.
TimeReached(h) ==
    /\ h \in 1..Len(handles)
    /\ handles[h].armed /\ ~handles[h].due
    /\ handles' = [handles EXCEPT ![h].due = TRUE]
    /\ lastCall' = NoCall
    /\ UNCHANGED <<jobs, otherJobs, serviceAvailable, probe, sends, initialized, devices, reqs,
                   updaterJob, procs, fires, now, btc, fetch, rcpt>>

\* Variant: only the first token gets a message.
FireMessagesFirstOnly(h) ==
    <<createMessage(handles[h].tokens[1], handles[h].payload)>>

\* Variant: the recipients are read from the device manager at each fire.
FireMessagesCurrentDevices(h) ==
    [i \in 1..Len(devices) |-> createMessage(devices[i], handles[h].payload)]

\* pushTokens.map((token) => createMessage(token, title, body, data))
FireMessages(h) ==
    [i \in 1..Len(handles[h].tokens) |->
        createMessage(handles[h].tokens[i], handles[h].payload)]

\* Callback runs of a Job logged so far.
FiresCount(h) == IF h \in DOMAIN fires THEN Len(fires[h]) ELSE 0

\* The log with one more run of h's callback, in progress.
firesStarted(h) ==
    [g \in DOMAIN fires \cup {h} |->
        IF g = h THEN (IF h \in DOMAIN fires THEN fires[h] ELSE <<>>) \o <<"running">>
        ELSE fires[g]]

\* The position in fires[h] of the run that awaits the send record i: the
\* runs in progress and their records are in starting order.
RunOf(i) ==
    LET h == sends[i].owner
        rank == Cardinality({j \in 1..i : sends[j].owner = h})
    IN  CHOOSE k \in 1..Len(fires[h]) :
          /\ fires[h][k] = "running"
          /\ Cardinality({j \in 1..k : fires[h][j] = "running"}) = rank

\* What the send a callback awaited came to: tickets, or nothing delivered.
FireOutcome(s) == IF Len(s.tickets) > 0 THEN "sent" ELSE "failed"

\* The timer of a pending invocation runs the job's callback, which builds
\* the messages and calls sendNotifications; the next invocation of the
\* recurrence is computed from the date of this one.
\* `cap` bounds the sends in flight.
FireStartWithin(h, cap) ==
    /\ h \in 1..Len(handles)
    /\ handles[h].armed /\ handles[h].due
    /\ Len(sends) < cap
    /\ FiresCount(h) < MaxFires
    /\ handles' = [handles EXCEPT
                     ![h].due = FALSE,
                     ![h].next = _nextInvocationDate(handles[h].trigger, handles[h].next)]
    /\ sends' = Append(sends, sendNotifications(h, FireMessages(h)))
    /\ fires' = firesStarted(h)
    /\ lastCall' = NoCall
    /\ UNCHANGED <<jobs, otherJobs, serviceAvailable, probe, initialized, devices, reqs,
                   updaterJob, procs, now, btc, fetch, rcpt>>

FireStart(h) == FireStartWithin(h, MaxSends)

\* Variant: a send that delivered nothing takes the job down with it.
FireFinishPropagates(i) ==
    /\ i \in 1..Len(sends)
    /\ sends[i].owner > 0 /\ sends[i].st = "done"
    /\ sends' = RemoveAt(sends, i)
    /\ fires' = [fires EXCEPT ![sends[i].owner][RunOf(i)] = FireOutcome(sends[i])]
    /\ IF FireOutcome(sends[i]) = "failed"
       THEN /\ handles' = [handles EXCEPT ![sends[i].owner].armed = FALSE]
            /\ jobs' = [n \in {m \in DOMAIN jobs : jobs[m] # sends[i].owner} |-> jobs[n]]
       ELSE UNCHANGED <<jobs, handles>>
    /\ lastCall' = NoCall
    /\ UNCHANGED <<otherJobs, serviceAvailable, probe, initialized, devices, reqs,
                   updaterJob, procs, now, btc, fetch, rcpt>>

\* The callback resumes after its await, in the try block or in its catch
\* block, and logs; the tickets are dropped.
FireFinish(i) ==
    /\ i \in 1..Len(sends)
    /\ sends[i].owner > 0 /\ sends[i].st = "done"
    /\ sends' = RemoveAt(sends, i)
    /\ fires' = [fires EXCEPT ![sends[i].owner][RunOf(i)] = FireOutcome(sends[i])]
    /\ lastCall' = NoCall
    /\ UNCHANGED <<jobs, otherJobs, handles, serviceAvailable, probe, initialized, devices,
                   reqs, updaterJob, procs, now, btc, fetch, rcpt>>

\* Time passes: step minutes.
Tick(step, until) ==
    /\ now + step <= until
    /\ now' = now + step
    /\ lastCall' = NoCall
    /\ UNCHANGED <<jobs, otherJobs, handles, serviceAvailable, probe, sends, initialized,
                   devices, reqs, updaterJob, procs, fires, btc, fetch, rcpt>>

\* The timer of a Job's pending invocation expires: its date has come.
TimerExpires(h) ==
    /\ h \in 1..Len(handles)
    /\ handles[h].next <= now
    /\ TimeReached(h)

-----------------------------------------------------------------------------
(* Actions: the dispatcher *)

\* What the gateway answers to the probe getPushNotificationReceiptsAsync([]):
\* no error, the error code of an empty submission, or any other error.
ProbeAnswers == {"ok", "PUSH_TOO_MANY_EXPERIENCE_IDS", "error"}

\* Variant: the expected error code is rethrown like any other error.
testServiceConnectionRethrowsAll(answer) ==
    IF answer = "ok" THEN "resolves" ELSE "throws"

\* _testServiceConnection: resolves on success and on the expected error
\* code, rethrows every other error.
_testServiceConnection(answer) ==
    IF answer = "ok" THEN "resolves"
    ELSE IF answer = "PUSH_TOO_MANY_EXPERIENCE_IDS" THEN "resolves"
    ELSE "throws"

\* Variant: a failed probe is tried again.
ProbeAnswerReprobes(answer) ==
    /\ probe \in {"probing", "unavailable"}
    /\ IF _testServiceConnection(answer) = "resolves"
       THEN serviceAvailable' = TRUE /\ probe' = "available"
       ELSE serviceAvailable' = FALSE /\ probe' = "unavailable"
    /\ lastCall' = Call("initializeService", "", answer)
    /\ UNCHANGED <<jobs, otherJobs, handles, sends, initialized, devices, reqs,
                   updaterJob, procs, fires, now, btc, fetch, rcpt>>

\* initializeService resumed by the probe's answer: the flag is set after the
\* await, or cleared in the catch block.
ProbeAnswer(answer) ==
    /\ probe = "probing"
    /\ IF _testServiceConnection(answer) = "resolves"
       THEN serviceAvailable' = TRUE /\ probe' = "available"
       ELSE serviceAvailable' = FALSE /\ probe' = "unavailable"
    /\ lastCall' = Call("initializeService", "", answer)
    /\ UNCHANGED <<jobs, otherJobs, handles, sends, initialized, devices, reqs,
                   updaterJob, procs, fires, now, btc, fetch, rcpt>>

\* The gateway answers the chunk a call is waiting on.
\* Variant: the loop looks at the job and stops when it has been cancelled.
GatewayReplyStopsWhenCancelled(i, ok) ==
    /\ i \in 1..Len(sends)
    /\ sends[i].st = "running"
    /\ sends' = [sends EXCEPT ![i] =
                  IF sends[i].owner > 0 /\ ~handles[sends[i].owner].armed
                  THEN [sends[i] EXCEPT !.st = "done"]
                  ELSE sendChunkResumed(sends[i], ok)]
    /\ lastCall' = NoCall
    /\ UNCHANGED <<jobs, otherJobs, handles, serviceAvailable, probe, initialized, devices, reqs,
                   updaterJob, procs, fires, now, btc, fetch, rcpt>>

\* The gateway answers the chunk a sendNotifications call awaits, or the
\* request fails.
GatewayReply(i, ok) ==
    /\ i \in 1..Len(sends)
    /\ sends[i].st = "running"
    /\ sends' = [sends EXCEPT ![i] = sendChunkResumed(sends[i], ok)]
    /\ lastCall' = NoCall
    /\ UNCHANGED <<jobs, otherJobs, handles, serviceAvailable, probe, initialized, devices, reqs,
                   updaterJob, procs, fires, now, btc, fetch, rcpt>>

\* The message lists of direct callers.
DirectMsgs == {createMessage(t, "p1") : t \in {"t1", "t2", "bad"}}
MsgLists == UNION {[1..k -> DirectMsgs] : k \in 0..MaxMsgs}

\* A caller other than a fire callback calls sendNotifications.
SendCall(messages) ==
    /\ \A i \in 1..Len(sends) : sends[i].owner # 0
    /\ sends' = Append(sends, sendNotifications(0, messages))
    /\ lastCall' = NoCall
    /\ UNCHANGED <<jobs, otherJobs, handles, serviceAvailable, probe, initialized, devices, reqs,
                   updaterJob, procs, fires, now, btc, fetch, rcpt>>

\* That caller takes the returned tickets.
SendReturn(i) ==
    /\ i \in 1..Len(sends)
    /\ sends[i].owner = 0 /\ sends[i].st = "done"
    /\ sends' = RemoveAt(sends, i)
    /\ lastCall' = NoCall
    /\ UNCHANGED <<jobs, otherJobs, handles, serviceAvailable, probe, initialized, devices, reqs,
                   updaterJob, procs, fires, now, btc, fetch, rcpt>>

-----------------------------------------------------------------------------
(* services/deviceManager.js: the token source *)

\* The device files the storage directory may hold at startup.
DeviceFiles == { <<>>, <<"t1">>, <<"t1", "t2">> }

\* DeviceManager.initializeService resumed after loading the file.
DmInit(ok, file) ==
    /\ initialized = "pending"
    /\ IF ok
       THEN initialized' = "yes" /\ devices' = file
       ELSE initialized' = "no" /\ UNCHANGED devices
    /\ lastCall' = NoCall
    /\ UNCHANGED <<jobs, otherJobs, handles, serviceAvailable, probe, sends, reqs,
                   updaterJob, procs, fires, now, btc, fetch, rcpt>>

\* getActiveTokens throws unless the manager is initialized.
getActiveTokensThrows == initialized # "yes"
getActiveTokens == devices

-----------------------------------------------------------------------------
(* index.js: POST /api/notifications/schedule/exchange-rate *)

ReqIds == {1, 2}

IdleReq ==
    [pc |-> "idle", name |-> "", cron |-> "", tokens |-> <<>>, body |-> "",
     status |-> 0, result |-> "", handle |-> NULL, overlap |-> FALSE]

Respond(req, status) == [req EXCEPT !.pc = "done", !.status = status]

\* The handler up to `await exchangeRateService.getExchangeRates()`.
ExReqStart(r, name, cronExpression) ==
    /\ reqs[r].pc = "idle"
    /\ LET req == [reqs[r] EXCEPT
                     !.name = name, !.cron = cronExpression,
                     !.overlap = \E o \in ReqIds \ {r} : reqs[o].pc \in {"rates", "tokens"}]
       IN  reqs' = [reqs EXCEPT ![r] =
                     IF name = "" \/ cronExpression = ""
                     THEN Respond(req, 400)
                     ELSE [req EXCEPT !.pc = "rates"]]
    /\ lastCall' = NoCall
    /\ UNCHANGED <<jobs, otherJobs, handles, serviceAvailable, probe, sends,
                   initialized, devices, updaterJob, procs, fires, now, btc, fetch,
                   rcpt>>

\* Resumed with the rates (or their failure), up to
\* `await deviceManager.getActiveTokens()`.
ExReqRates(r, success, body) ==
    /\ reqs[r].pc = "rates"
    /\ reqs' = [reqs EXCEPT ![r] =
                  IF ~success THEN Respond(@, 500)
                  ELSE IF getActiveTokensThrows THEN Respond(@, 500)
                  ELSE [@ EXCEPT !.pc = "tokens", !.body = body,
                                 !.tokens = getActiveTokens]]
    /\ lastCall' = NoCall
    /\ UNCHANGED <<jobs, otherJobs, handles, serviceAvailable, probe, sends,
                   initialized, devices, updaterJob, procs, fires, now, btc, fetch,
                   rcpt>>

\* Resumed with the tokens: scheduleCustom, job.nextInvocation(), response.
ExReqSchedule(r) ==
    /\ reqs[r].pc = "tokens"
    /\ LET req == reqs[r]
           result == scheduleCustomResult(req.name, req.cron, req.tokens)
       IN  IF Len(req.tokens) = 0
           THEN /\ reqs' = [reqs EXCEPT ![r] = Respond(@, 400)]
                /\ lastCall' = NoCall
                /\ UNCHANGED <<jobs, handles>>
           ELSE /\ scheduleCustom(req.name, req.cron, req.tokens, req.body)
                /\ lastCall' = Call("scheduleCustom", req.name, result)
                /\ reqs' = [reqs EXCEPT ![r] =
                              [Respond(@, IF result = "ok" THEN 200 ELSE 500) EXCEPT
                                 !.result = result,
                                 !.handle = IF result = "ok" THEN Len(handles) + 1
                                            ELSE NULL]]
    /\ UNCHANGED <<otherJobs, serviceAvailable, probe, sends, initialized, devices,
                   updaterJob, procs, fires, now, btc, fetch, rcpt>>

-----------------------------------------------------------------------------
(* index.js: POST /api/notifications/schedule/daily and .../schedule/custom  *)

DAILY_ROUTE == "POST /api/notifications/schedule/daily"
CUSTOM_ROUTE == "POST /api/notifications/schedule/custom"

\* Request bodies: a missing field is "", a pushTokens that is no array is
\* NotArray; title and body are one field, "" when either is missing.
HttpNames == NameArgs
HttpCrons == CronExprs \cup {""}
HttpTokenLists == {NotArray, <<>>, <<"t1">>, <<"t1", "bad">>}
HttpContents == {"p1", ""}

\* !Array.isArray(pushTokens) || pushTokens.length === 0
NoTokenList(pushTokens) == pushTokens = NotArray \/ Len(pushTokens) = 0

\* The status of the response after the schedule call: job.nextInvocation()
\* throws on a null job, and every throw ends in the catch block.
ScheduleStatus(result) == IF result = "ok" THEN "200" ELSE "500"

\* The daily handler: the parameter check, scheduleDaily, the response.
ScheduleDailyRequest(name, hour, minute, pushTokens, content) ==
    /\ IF name = "" \/ NoTokenList(pushTokens) \/ content = ""
       THEN /\ lastCall' = Call(DAILY_ROUTE, name, "400")
            /\ UNCHANGED <<jobs, handles>>
       ELSE /\ scheduleDaily(name, hour, minute, pushTokens, content)
            /\ lastCall' = Call(DAILY_ROUTE, name,
                                ScheduleStatus(scheduleDailyResult(name, hour, minute,
                                                                   pushTokens)))
    /\ UNCHANGED <<otherJobs, serviceAvailable, probe, sends, initialized, devices, reqs,
                   updaterJob, procs, fires, now, btc, fetch, rcpt>>

\* The custom handler: the parameter check, scheduleCustom, the response.
ScheduleCustomRequest(name, cronExpression, pushTokens, content) ==
    /\ IF name = "" \/ cronExpression = "" \/ NoTokenList(pushTokens) \/ content = ""
       THEN /\ lastCall' = Call(CUSTOM_ROUTE, name, "400")
            /\ UNCHANGED <<jobs, handles>>
       ELSE /\ scheduleCustom(name, cronExpression, pushTokens, content)
            /\ lastCall' = Call(CUSTOM_ROUTE, name,
                                ScheduleStatus(scheduleCustomResult(name, cronExpression,
                                                                    pushTokens)))
    /\ UNCHANGED <<otherJobs, serviceAvailable, probe, sends, initialized, devices, reqs,
                   updaterJob, procs, fires, now, btc, fetch, rcpt>>

\* test-notifications.js, testDailyNotification: the request it builds from
\* the clock, hour = now.getHours(), minute = now.getMinutes() + 1.
getHours == LocalMinute(now) \div 60
getMinutes == LocalMinute(now) % 60

TestDailyRequest(name) ==
    ScheduleDailyRequest(name, getHours, getMinutes + 1, <<"t1">>, "p1")

-----------------------------------------------------------------------------
(* index.js: DELETE /api/notifications/schedule/:name and                    *)
(* GET /api/notifications/schedule                                           *)

DELETE_ROUTE == "DELETE /api/notifications/schedule/:name"
LIST_ROUTE == "GET /api/notifications/schedule"

\* The DELETE handler: cancelJob(name), then success or 404.
DeleteRequest(name) ==
    /\ cancelJob(name)
    /\ lastCall' = Call(DELETE_ROUTE, name, IF cancelJobResult(name) THEN "200" ELSE "404")
    /\ UNCHANGED <<otherJobs, serviceAvailable, probe, sends, initialized, devices, reqs,
                   updaterJob, procs, fires, now, btc, fetch, rcpt>>

\* The GET handler: getActiveJobs() and the listing as the response; the
\* handler has no try block, an error ends in the framework's 500.
ListRequest ==
    /\ lastCall' = Call(LIST_ROUTE, "", IF getActiveJobsResult = "ok" THEN "200" ELSE "500")
    /\ UNCHANGED <<jobs, otherJobs, handles, serviceAvailable, probe, sends,
                   initialized, devices, reqs, updaterJob, procs, fires, now, btc,
                   fetch, rcpt>>

-----------------------------------------------------------------------------
(* services/exchangeRateUpdater.js, and its callers in index.js: the startup *)
(* callback of app.listen and POST /api/register-push-token                  *)

\* UPDATER_CONFIG.JOB_NAME and BTC_MONITOR_CONFIG.REGULAR_UPDATE_JOB
JOB_NAME == "exchange-rate-update"
REGULAR_UPDATE_JOB == "btc-price-update"

\* Process 0 is the startup callback; the others are registration requests.
RegIds == {1, 2}
ProcIds == {0} \cup RegIds

IdleProc == [pc |-> "idle", token |-> "", tokens |-> <<>>, status |-> 0]

\* req.body.platform: missing, a platform string, or a device-info object
\* with platform and deviceName.
RegPlatforms == {"", "ios", "#deviceInfo"}

\* Unsupported platforms: the string "windows", and an object with platform
\* "windows" and a deviceName.
UnsupportedPlatforms == {"windows", "#unsupported"}

\* A request body: token, platform and deviceInfo, "" for an absent field.
\* deviceInfo is "#deviceInfo" (platform 'ios' or 'android' and a
\* deviceName) or "#unsupported".
RegBody(token, platform, deviceInfo) ==
    [token |-> token, platform |-> platform, deviceInfo |-> deviceInfo]

\* this.devices.set(token, device): a new key is appended, a present key
\* keeps its place.
devicesSet(token) ==
    IF \E i \in 1..Len(devices) : devices[i] = token THEN devices
    ELSE Append(devices, token)

\* Variant: any device info that is present passes.
validateDeviceInfoAnyPlatform(deviceInfo) ==
    IF deviceInfo = "" THEN "Device info is required" ELSE "ok"

\* _validateDeviceInfo: reads platform and deviceName off its argument; a
\* string has neither.
_validateDeviceInfo(deviceInfo) ==
    IF deviceInfo = "" THEN "Device info is required"
    ELSE IF deviceInfo # "#deviceInfo" THEN "Unsupported platform"
    ELSE "ok"

\* DeviceManager._validateToken: a string with the envelope
\* ExponentPushToken[...].
_validateToken(token) ==
    IF token = "" THEN "Push token is required and must be a string"
    ELSE IF token \notin GoodTokens THEN "Invalid Expo push token format"
    ELSE "ok"

\* How a process ends: the startup callback exits the process on an error,
\* a request answers with a status.
ProcEnd(p, ok) ==
    IF p = 0
    THEN [procs[p] EXCEPT !.pc = IF ok THEN "btc" ELSE "exited"]
    ELSE [procs[p] EXCEPT !.pc = "done", !.status = IF ok THEN 200 ELSE 500]

\* ExchangeRateUpdater.stop()
stop ==
    IF updaterJob # NULL
    THEN /\ cancelJob(JOB_NAME)
         /\ updaterJob' = NULL
    ELSE UNCHANGED <<jobs, handles, updaterJob>>

\* The listen callback: exchangeRateUpdater.start() up to the await in
\* _validateServices.
BootStart ==
    /\ procs[0].pc = "idle"
    /\ procs' = [procs EXCEPT ![0].pc = "validating"]
    /\ lastCall' = NoCall
    /\ UNCHANGED <<jobs, otherJobs, handles, serviceAvailable, probe, sends,
                   initialized, devices, reqs, updaterJob, fires, now, btc, fetch,
                   rcpt>>

\* The registration handler up to `await this._saveDevices()` inside
\* registerDevice.
RegStart(r, token, platform) ==
    /\ r \in RegIds /\ procs[r].pc = "idle"
    /\ LET rejected == token = "" \/ platform = "" \/ ~isExpoPushToken(token)
           throws == \/ initialized # "yes"
                     \/ _validateToken(token) # "ok"
                     \/ _validateDeviceInfo(platform) # "ok"
       IN  IF rejected
           THEN /\ procs' = [procs EXCEPT ![r] =
                               [@ EXCEPT !.pc = "done", !.status = 400, !.token = token]]
                /\ UNCHANGED devices
           ELSE IF throws
           THEN /\ procs' = [procs EXCEPT ![r] = [ProcEnd(r, FALSE) EXCEPT !.token = token]]
                /\ UNCHANGED devices
           ELSE /\ devices' = devicesSet(token)
                /\ procs' = [procs EXCEPT ![r] = [@ EXCEPT !.pc = "saving", !.token = token]]
    /\ lastCall' = NoCall
    /\ UNCHANGED <<jobs, otherJobs, handles, serviceAvailable, probe, sends,
                   initialized, reqs, updaterJob, fires, now, btc, fetch, rcpt>>

\* POST /api/register-push-token with the given body: the handler reads
\* token and platform off it.
RegRequest(r, body) == RegStart(r, body.token, body.platform)

\* Resumed after the file write: on success the test notification is built
\* and handed to sendNotifications.
RegSaved(r, ok) ==
    /\ r \in RegIds /\ procs[r].pc = "saving"
    /\ IF ok
       THEN /\ sends' = Append(sends,
                          sendNotifications(0 - r, <<createMessage(procs[r].token, "registration")>>))
            /\ procs' = [procs EXCEPT ![r].pc = "sending"]
       ELSE /\ procs' = [procs EXCEPT ![r] = ProcEnd(r, FALSE)]
            /\ UNCHANGED sends
    /\ lastCall' = NoCall
    /\ UNCHANGED <<jobs, otherJobs, handles, serviceAvailable, probe,
                   initialized, devices, reqs, updaterJob, fires, now, btc, fetch,
                   rcpt>>

\* Resumed with the tickets: exchangeRateUpdater.restart() runs stop() and
\* start() up to the await in _validateServices.
RegSent(r) ==
    /\ r \in RegIds /\ procs[r].pc = "sending"
    /\ \E i \in 1..Len(sends) :
         /\ sends[i].owner = 0 - r /\ sends[i].st = "done"
         /\ sends' = RemoveAt(sends, i)
    /\ stop
    /\ procs' = [procs EXCEPT ![r].pc = "validating"]
    /\ lastCall' = Call("restart", JOB_NAME, "")
    /\ UNCHANGED <<otherJobs, serviceAvailable, probe, initialized, devices, reqs,
                   fires, now, btc, fetch, rcpt>>

\* start() resumed with the rates: the rest of _validateServices, and
\* getActiveTokens, up to `await this._getLatestRateMessage()`.
StartValidated(p, ratesOk) ==
    /\ p \in ProcIds /\ procs[p].pc = "validating"
    /\ procs' = [procs EXCEPT ![p] =
                   IF ~ratesOk \/ getActiveTokensThrows THEN ProcEnd(p, FALSE)
                   ELSE IF Len(getActiveTokens) = 0 THEN ProcEnd(p, TRUE)
                   ELSE [@ EXCEPT !.pc = "message", !.tokens = getActiveTokens]]
    /\ lastCall' = NoCall
    /\ UNCHANGED <<jobs, otherJobs, handles, serviceAvailable, probe, sends,
                   initialized, devices, reqs, updaterJob, fires, now, btc, fetch,
                   rcpt>>

\* start() resumed with the rate message: scheduleCustom, this.job.
StartMessage(p, body) ==
    /\ p \in ProcIds /\ procs[p].pc = "message"
    /\ LET result == scheduleCustomResult(JOB_NAME, "cron", procs[p].tokens)
       IN  /\ scheduleCustom(JOB_NAME, "cron", procs[p].tokens, body)
           /\ lastCall' = Call("scheduleCustom", JOB_NAME, result)
           /\ updaterJob' = IF result = "ok" THEN Len(handles) + 1 ELSE updaterJob
           /\ procs' = [procs EXCEPT ![p] = ProcEnd(p, result = "ok")]
    /\ UNCHANGED <<otherJobs, serviceAvailable, probe, sends, initialized, devices, reqs,
                   fires, now, btc, fetch, rcpt>>

\* The listen callback goes on to btcPriceMonitor.start(), up to
\* `await this._getPriceMessage()`.
BootBtcTokens ==
    /\ procs[0].pc = "btc"
    /\ procs' = [procs EXCEPT ![0] =
                   IF getActiveTokensThrows THEN [@ EXCEPT !.pc = "exited"]
                   ELSE IF Len(getActiveTokens) = 0 THEN [@ EXCEPT !.pc = "done"]
                   ELSE [@ EXCEPT !.pc = "btcMessage", !.tokens = getActiveTokens]]
    /\ lastCall' = NoCall
    /\ UNCHANGED <<jobs, otherJobs, handles, serviceAvailable, probe, sends,
                   initialized, devices, reqs, updaterJob, fires, now, btc, fetch,
                   rcpt>>

\* _getPriceMessage: the formatted price, or the text it returns when
\* _fetchPrice failed on every attempt (it never throws).
NoPriceMessage == "no price data"
_getPriceMessage(success, body) == IF success THEN body ELSE NoPriceMessage

\* The monitor after scheduleCustom returned or threw inside start():
\* this.regularJob is assigned and setInterval called when it returned.
\* `loops` counts the intervals set and never cleared.
btcStarted(result) ==
    IF result = "ok"
    THEN [btc EXCEPT !.interval = TRUE, !.loops = @ + 1,
                     !.regularJob = Len(handles) + 1, !.call = "idle"]
    ELSE [btc EXCEPT !.interval = FALSE, !.call = "idle"]

\* btcPriceMonitor.start() resumed with the price message: scheduleCustom,
\* then setInterval for the price check.
BootBtcSchedule(body) ==
    /\ procs[0].pc = "btcMessage"
    /\ LET result == scheduleCustomResult(REGULAR_UPDATE_JOB, "cron", procs[0].tokens)
       IN  /\ scheduleCustom(REGULAR_UPDATE_JOB, "cron", procs[0].tokens, body)
           /\ lastCall' = Call("scheduleCustom", REGULAR_UPDATE_JOB, result)
           /\ procs' = [procs EXCEPT ![0].pc = IF result = "ok" THEN "done" ELSE "exited"]
           /\ btc' = btcStarted(result)
    /\ UNCHANGED <<otherJobs, serviceAvailable, probe, sends, initialized, devices, reqs,
                   updaterJob, fires, now, fetch, rcpt>>

\* BTCPriceMonitor.stop(): the regular job is cancelled; the interval set by
\* start() has no handle kept and is not cleared; monitorJob is never set.
btcStop ==
    IF btc.regularJob # NULL THEN cancelJob(REGULAR_UPDATE_JOB)
    ELSE UNCHANGED <<jobs, handles>>

\* BTCPriceMonitor.start() up to `await this._getPriceMessage()`, on the
\* monitor record b.
btcStartBegin(b) ==
    IF getActiveTokensThrows \/ Len(getActiveTokens) = 0 THEN b
    ELSE [b EXCEPT !.call = "message", !.tokens = getActiveTokens]

btcStartOutcome ==
    IF getActiveTokensThrows THEN "throws"
    ELSE IF Len(getActiveTokens) = 0 THEN "no devices" ELSE "awaiting"

\* btcPriceMonitor.start() is called.
BtcStart ==
    /\ btc.call = "idle"
    /\ btc' = btcStartBegin(btc)
    /\ lastCall' = Call("btcStart", REGULAR_UPDATE_JOB, btcStartOutcome)
    /\ UNCHANGED <<jobs, otherJobs, handles, serviceAvailable, probe, sends,
                   initialized, devices, reqs, updaterJob, procs, fires, now, fetch,
                   rcpt>>

\* start() resumed with the price message.
BtcStartMessage(body) ==
    /\ btc.call = "message"
    /\ LET result == scheduleCustomResult(REGULAR_UPDATE_JOB, "cron", btc.tokens)
       IN  /\ scheduleCustom(REGULAR_UPDATE_JOB, "cron", btc.tokens, body)
           /\ lastCall' = Call("scheduleCustom", REGULAR_UPDATE_JOB, result)
           /\ btc' = btcStarted(result)
    /\ UNCHANGED <<otherJobs, serviceAvailable, probe, sends, initialized, devices, reqs,
                   updaterJob, procs, fires, now, fetch, rcpt>>

\* btcPriceMonitor.stop() is called.
BtcStop ==
    /\ btcStop
    /\ btc' = [btc EXCEPT !.regularJob = NULL]
    /\ lastCall' = Call("btcStop", REGULAR_UPDATE_JOB, "")
    /\ UNCHANGED <<otherJobs, serviceAvailable, probe, sends, initialized, devices, reqs,
                   updaterJob, procs, fires, now, fetch, rcpt>>

\* btcPriceMonitor.restart() is called: stop(), then start() up to its await.
BtcRestart ==
    /\ btc.call = "idle"
    /\ btcStop
    /\ btc' = btcStartBegin([btc EXCEPT !.regularJob = NULL])
    /\ lastCall' = Call("btcRestart", REGULAR_UPDATE_JOB, btcStartOutcome)
    /\ UNCHANGED <<otherJobs, serviceAvailable, probe, sends, initialized, devices, reqs,
                   updaterJob, procs, fires, now, fetch, rcpt>>

\* getPushNotificationReceipts: no receipts for an empty ticket list; else
\* the receipts of the chunks the gateway answered.
ReceiptsCall(tickets, ok) ==
    /\ lastCall' = Call("getPushNotificationReceipts", "",
                        IF tickets = 0 THEN "empty"
                        ELSE IF ok THEN "receipts" ELSE "none")
    /\ UNCHANGED <<jobs, otherJobs, handles, serviceAvailable, probe, sends,
                   initialized, devices, reqs, updaterJob, procs, fires, now, btc,
                   fetch, rcpt>>

-----------------------------------------------------------------------------
(* services/btcPriceMonitor.js: the price alert *)

\* BTC_MONITOR_CONFIG.PRICE_THRESHOLD
PRICE_THRESHOLD == 80000

\* The alert cooldown `30 * 60 * 1000` ms, in minutes.
AlertCooldown == 30

\* The period of the price check, `5 * 60 * 1000` ms, in minutes.
CheckInterval == 5

\* Prices the feed returns.
BtcPrices == {80000, 79000, 78900, 75050, 74000}

\* new Date().getTime(), in minutes: a positive number.
dateNow == now + 1

\* The owner of the sendNotifications call of an alert.
BtcOwner == 0 - 9

\* Variant: no re-alert on a further drop within the cooldown.
shouldAlertCooldownOnly(currentPrice, t) ==
    /\ currentPrice < PRICE_THRESHOLD
    /\ \/ btc.lastAlertTime = NULL
       \/ t - btc.lastAlertTime > AlertCooldown

\* The decision of _checkPriceAlert: below the threshold, and a first alert,
\* or the cooldown over, or the price below lastAlertPrice * 0.95.
shouldAlert(currentPrice, t) ==
    /\ currentPrice < PRICE_THRESHOLD
    /\ \/ btc.lastAlertTime = NULL
       \/ t - btc.lastAlertTime > AlertCooldown
       \/ btc.lastAlertPrice # NULL /\ currentPrice * 100 < btc.lastAlertPrice * 95

\* The setInterval callback: _checkPriceAlert up to `await this._fetchPrice()`.
BtcPollStart ==
    /\ btc.interval /\ btc.pc = "idle"
    /\ Len(btc.polls) < MaxPolls
    /\ btc' = [btc EXCEPT !.pc = "fetching"]
    /\ lastCall' = NoCall
    /\ UNCHANGED <<jobs, otherJobs, handles, serviceAvailable, probe, sends, initialized,
                   devices, reqs, updaterJob, procs, fires, now, fetch, rcpt>>

\* Resumed with the price data: the decision, and for an alert the messages
\* to the active tokens handed to sendNotifications.
BtcPriceFetched(success, price) ==
    /\ btc.pc = "fetching"
    /\ IF ~success
       THEN /\ btc' = [btc EXCEPT !.pc = "idle"]
            /\ UNCHANGED sends
       ELSE IF ~shouldAlert(price, dateNow)
       THEN /\ btc' = [btc EXCEPT
                         !.pc = "idle",
                         !.polls = Append(@, [price |-> price, at |-> dateNow,
                                             alerted |-> FALSE])]
            /\ UNCHANGED sends
       ELSE IF getActiveTokensThrows
       THEN /\ btc' = [btc EXCEPT
                         !.pc = "idle",
                         !.polls = Append(@, [price |-> price, at |-> dateNow,
                                             alerted |-> FALSE])]
            /\ UNCHANGED sends
       ELSE /\ btc' = [btc EXCEPT
                         !.pc = "sending", !.price = price, !.at = dateNow,
                         !.polls = Append(@, [price |-> price, at |-> dateNow,
                                             alerted |-> TRUE])]
            /\ sends' = Append(sends,
                          sendNotifications(BtcOwner,
                            [i \in 1..Len(getActiveTokens) |->
                               createMessage(getActiveTokens[i], "btc_price_alert")]))
    /\ lastCall' = NoCall
    /\ UNCHANGED <<jobs, otherJobs, handles, serviceAvailable, probe, initialized,
                   devices, reqs, updaterJob, procs, fires, now, fetch, rcpt>>

\* Resumed after the send: the alert is remembered.
BtcAlertSent ==
    /\ btc.pc = "sending"
    /\ \E i \in 1..Len(sends) :
         /\ sends[i].owner = BtcOwner /\ sends[i].st = "done"
         /\ sends' = RemoveAt(sends, i)
    /\ btc' = [btc EXCEPT !.pc = "idle",
                          !.lastAlertPrice = btc.price, !.lastAlertTime = btc.at]
    /\ lastCall' = NoCall
    /\ UNCHANGED <<jobs, otherJobs, handles, serviceAvailable, probe, initialized,
                   devices, reqs, updaterJob, procs, fires, now, fetch, rcpt>>

-----------------------------------------------------------------------------
(* utils/expoPushNotifications.js: getPushNotificationReceipts *)

\* Tickets in one getPushNotificationReceipts call.
MaxTickets == 4

\* The id of a ticket without one (falsy, like undefined).
NoId == ""

\* A ticket of an accepted message carries a receipt id; an error ticket
\* carries none.
TicketKinds == {[id |-> "r1"], [id |-> "r2"], [id |-> NoId]}

TicketLists ==
    UNION {[1..n -> TicketKinds] : n \in 0..MaxTickets}

\* Variant: every ticket is queried, with or without an id.
receiptIdsOfAllTickets(tickets) == [i \in 1..Len(tickets) |-> tickets[i].id]

\* tickets.filter((ticket) => ticket.id).map((ticket) => ticket.id)
RECURSIVE receiptIdsOf(_)
receiptIdsOf(tickets) ==
    IF Len(tickets) = 0 THEN <<>>
    ELSE (IF Head(tickets).id # NoId THEN <<Head(tickets).id>> ELSE <<>>)
         \o receiptIdsOf(Tail(tickets))

\* expo.chunkPushNotificationReceiptIds: consecutive runs of at most
\* ChunkLimit ids.
RECURSIVE chunkPushNotificationReceiptIds(_)
chunkPushNotificationReceiptIds(receiptIds) ==
    IF Len(receiptIds) = 0 THEN <<>>
    ELSE IF Len(receiptIds) <= ChunkLimit THEN <<receiptIds>>
    ELSE <<SubSeq(receiptIds, 1, ChunkLimit)>>
         \o chunkPushNotificationReceiptIds(
                SubSeq(receiptIds, ChunkLimit + 1, Len(receiptIds)))

\* pc: "idle" (no call yet), "await" (awaiting the gateway's answer to chunk
\* `next`), "done" (returned `receipts`).  calls: the gateway requests made.
\* receipts: one entry per chunk answered, here the ids it was asked about.
IdleReceipts ==
    [pc |-> "idle", tickets |-> <<>>, chunks |-> <<>>, next |-> 1,
     receipts |-> <<>>, failed |-> {}, calls |-> 0]

\* getPushNotificationReceipts up to its first await.
getPushNotificationReceipts(tickets) ==
    IF Len(tickets) = 0 THEN [IdleReceipts EXCEPT !.pc = "done", !.tickets = tickets]
    ELSE IF Len(receiptIdsOf(tickets)) = 0
    THEN [IdleReceipts EXCEPT !.pc = "done", !.tickets = tickets]
    ELSE [IdleReceipts EXCEPT
            !.pc = "await", !.tickets = tickets,
            !.chunks = chunkPushNotificationReceiptIds(receiptIdsOf(tickets)),
            !.calls = 1]

\* Variant: a failed chunk ends the loop.
receiptChunkResumedStopsOnFailure(r, ok) ==
    LET last == r.next = Len(r.chunks)
    IN  IF ~ok
        THEN [r EXCEPT !.failed = @ \cup {r.next}, !.next = @ + 1, !.pc = "done"]
        ELSE [r EXCEPT !.receipts = Append(@, r.chunks[r.next]),
                       !.next = @ + 1,
                       !.calls = IF last THEN @ ELSE @ + 1,
                       !.pc = IF last THEN "done" ELSE "await"]

\* The loop body resumed by the gateway's answer to chunk `next`: the receipt
\* is pushed, or the error is logged, and the loop goes on or returns.
receiptChunkResumed(r, ok) ==
    LET last == r.next = Len(r.chunks)
    IN  [r EXCEPT !.receipts = IF ok THEN Append(@, r.chunks[r.next]) ELSE @,
                  !.failed = IF ok THEN @ ELSE @ \cup {r.next},
                  !.next = @ + 1,
                  !.calls = IF last THEN @ ELSE @ + 1,
                  !.pc = IF last THEN "done" ELSE "await"]

GetReceipts(tickets) ==
    /\ rcpt.pc \in {"idle", "done"}
    /\ rcpt' = getPushNotificationReceipts(tickets)
    /\ UNCHANGED <<jobs, otherJobs, handles, lastCall, serviceAvailable, probe, sends,
                   initialized, devices, reqs, updaterJob, procs, fires, now, btc,
                   fetch>>

\* expo.getPushNotificationReceiptsAsync(chunk) resolves (ok) or rejects.
ReceiptsReply(ok) ==
    /\ rcpt.pc = "await"
    /\ rcpt' = receiptChunkResumed(rcpt, ok)
    /\ UNCHANGED <<jobs, otherJobs, handles, lastCall, serviceAvailable, probe, sends,
                   initialized, devices, reqs, updaterJob, procs, fires, now, btc,
                   fetch>>

-----------------------------------------------------------------------------
(* The feed fetches: BTCPriceMonitor._fetchPrice and
   ExchangeRateService.getExchangeRates over their _fetchWithRetry *)

RETRY_COUNT == 3
\* Milliseconds.
RETRY_DELAY == 1000

FeedServices == {"btc", "rates"}

\* What axios.get resolves with: a body of the documented shape, or another.
Responses == {"ok", "malformed"}

\* pc: where the call stands ("idle": none made yet; "get": awaiting
\* axios.get; "delay": awaiting the retry timer; "done": returned).
\* i: the loop counter.  attempts: the axios.get calls made by this call.
\* waited: the milliseconds spent in retry timers.  lastError: the attempt
\* whose rejection lastError holds.  okAt: the attempt whose response was
\* returned.  thrown: the attempt whose error _fetchWithRetry threw.
\* success: the `success` field of the result returned to the caller.
\* cached: ExchangeRateService's cache holds rates younger than CACHE_DURATION.
IdleFetch ==
    [pc |-> "idle", i |-> 0, attempts |-> 0, waited |-> 0, lastError |-> NULL,
     okAt |-> NULL, thrown |-> NULL, success |-> "none", cached |-> FALSE]

\* Variant: the loop runs once more than RETRY_COUNT.
retryAgainInclusive(i) == i <= RETRY_COUNT

\* The loop condition of _fetchWithRetry.
retryAgain(i) == i < RETRY_COUNT

\* The caller's reading of a response: _fetchPrice wants code "0" and a
\* non-empty data array and throws otherwise into its own catch;
\* getExchangeRates dereferences response.data.rates inside its try.
feedSuccess(response) == response = "ok"

\* _fetchPrice() / getExchangeRates() is called: a valid cache answers at
\* once; otherwise _fetchWithRetry enters its loop and calls axios.get.
FetchCall(s) ==
    /\ fetch[s].pc \in {"idle", "done"}
    /\ fetch' = [fetch EXCEPT ![s] =
         IF s = "rates" /\ fetch[s].cached
         THEN [IdleFetch EXCEPT !.pc = "done", !.success = TRUE, !.cached = TRUE]
         ELSE [IdleFetch EXCEPT !.pc = "get", !.attempts = 1,
                                !.cached = fetch[s].cached]]
    /\ UNCHANGED <<jobs, otherJobs, handles, lastCall, serviceAvailable, probe, sends,
                   initialized, devices, reqs, updaterJob, procs, fires, now, btc,
                   rcpt>>

\* axios.get resolves: _fetchWithRetry returns the response and the caller
\* builds its result; getExchangeRates refreshes its cache on success.
GetResolves(s, response) ==
    /\ fetch[s].pc = "get"
    /\ fetch' = [fetch EXCEPT ![s].pc = "done",
                              ![s].okAt = fetch[s].attempts,
                              ![s].success = feedSuccess(response),
                              ![s].cached = IF s = "rates" /\ feedSuccess(response)
                                            THEN TRUE ELSE fetch[s].cached]
    /\ UNCHANGED <<jobs, otherJobs, handles, lastCall, serviceAvailable, probe, sends,
                   initialized, devices, reqs, updaterJob, procs, fires, now, btc,
                   rcpt>>

\* axios.get rejects (network error, HTTP error status, or its TIMEOUT): the
\* error is kept and the retry timer is set.
GetRejects(s) ==
    /\ fetch[s].pc = "get"
    /\ fetch' = [fetch EXCEPT ![s].pc = "delay", ![s].lastError = fetch[s].attempts]
    /\ UNCHANGED <<jobs, otherJobs, handles, lastCall, serviceAvailable, probe, sends,
                   initialized, devices, reqs, updaterJob, procs, fires, now, btc,
                   rcpt>>

\* The retry timer fires: the loop goes round, calling axios.get again, or
\* ends, and then lastError is thrown into the caller's catch, which returns
\* {success: false}.
DelayElapses(s) ==
    /\ fetch[s].pc = "delay"
    /\ fetch' = [fetch EXCEPT ![s] =
         IF retryAgain(fetch[s].i + 1)
         THEN [fetch[s] EXCEPT !.pc = "get", !.i = @ + 1, !.attempts = @ + 1,
                               !.waited = @ + RETRY_DELAY]
         ELSE [fetch[s] EXCEPT !.pc = "done", !.i = @ + 1,
                               !.waited = @ + RETRY_DELAY,
                               !.thrown = fetch[s].lastError, !.success = FALSE]]
    /\ UNCHANGED <<jobs, otherJobs, handles, lastCall, serviceAvailable, probe, sends,
                   initialized, devices, reqs, updaterJob, procs, fires, now, btc,
                   rcpt>>

\* CACHE_DURATION passes since the cache was filled.
CacheExpires ==
    /\ fetch["rates"].cached
    /\ fetch' = [fetch EXCEPT !["rates"].cached = FALSE]
    /\ UNCHANGED <<jobs, otherJobs, handles, lastCall, serviceAvailable, probe, sends,
                   initialized, devices, reqs, updaterJob, procs, fires, now, btc,
                   rcpt>>

-----------------------------------------------------------------------------
(* Specifications *)

Init ==
    /\ jobs = [n \in {} |-> NULL]
    /\ otherJobs = 0
    /\ handles = <<>>
    /\ lastCall = NoCall
    /\ serviceAvailable = FALSE
    /\ probe = "probing"
    /\ sends = <<>>
    /\ initialized = "pending"
    /\ devices = <<>>
    /\ reqs = [r \in ReqIds |-> IdleReq]
    /\ updaterJob = NULL
    /\ procs = [p \in ProcIds |-> IdleProc]
    /\ fires = [h \in {} |-> <<>>]
    /\ now = 0
    /\ btc = [interval |-> FALSE, pc |-> "idle", price |-> NULL, at |-> NULL,
              lastAlertPrice |-> NULL, lastAlertTime |-> NULL, polls |-> <<>>,
              loops |-> 0, regularJob |-> NULL, call |-> "idle", tokens |-> <<>>]
    /\ fetch = [s \in FeedServices |-> IdleFetch]
    /\ rcpt = IdleReceipts

\* The registry under direct calls.
Next ==
    \/ \E name \in NameArgs, time \in DailyTimes,
          pushTokens \in TokenLists, payload \in Payloads :
            ScheduleDailyCall(name, time[1], time[2], pushTokens, payload)
    \/ \E name \in NameArgs, cronExpression \in CronExprs,
          pushTokens \in TokenLists, payload \in Payloads :
            ScheduleCustomCall(name, cronExpression, pushTokens, payload)
    \/ \E name \in NameArgs : CancelJobCall(name)
    \/ GetActiveJobsCall

Spec == Init /\ [][Next]_vars

\* The registry with the scheduler's timers, the fire callbacks and the
\* dispatcher they call.
NextFire ==
    \/ \E name \in Names, pushTokens \in {<<"t1">>, <<"t1", "t2">>} :
            ScheduleCustomCall(name, "cron", pushTokens, "p1")
    \/ \E name \in Names : ScheduleDailyCall(name, 9, 0, <<"t1">>, "p2")
    \/ \E name \in Names : CancelJobCall(name)
    \/ GetActiveJobsCall
    \/ \E h \in 1..MaxHandles : TimeReached(h)
    \/ \E h \in 1..MaxHandles : FireStart(h)
    \/ \E i \in 1..MaxSends : FireFinish(i)
    \/ \E i \in 1..MaxSends, ok \in BOOLEAN : GatewayReply(i, ok)
    \/ \E answer \in ProbeAnswers : ProbeAnswer(answer)

SpecFire == Init /\ [][NextFire]_vars

\* The registry filling up to MAX_JOBS: one followed name, the other entries counted.
NextCap ==
    \/ \E name \in {"a", ""}, pushTokens \in {<<"t1">>, <<"bad">>} :
            ScheduleCustomCall(name, "cron", pushTokens, "p1")
    \/ \E time \in DailyTimes : ScheduleDailyCall("a", time[1], time[2], <<"t1">>, "p1")
    \/ CancelJobCall("a")
    \/ ScheduleOther
    \/ CancelOther

SpecCap == Init /\ [][NextCap]_vars

\* Two exchange-rate schedule requests in flight together.
NextRace ==
    \/ \E ok \in BOOLEAN, file \in DeviceFiles : DmInit(ok, file)
    \/ \E r \in ReqIds, name \in NameArgs, cronExpression \in CronExprs \cup {""} :
            ExReqStart(r, name, cronExpression)
    \/ \E r \in ReqIds, success \in BOOLEAN, body \in Payloads : ExReqRates(r, success, body)
    \/ \E r \in ReqIds : ExReqSchedule(r)

SpecRace == Init /\ [][NextRace]_vars

\* The dispatcher under direct sendNotifications calls.
\* Daily jobs on the clock: schedule, cancel and listing calls while time
\* passes and the timers expire and run.
ClockTimes == { <<9, 0>>, <<0, 0>>, <<23, 59>> }

NextClock ==
    \/ Tick(1, MaxNow)
    \/ \E time \in ClockTimes : ScheduleDailyCall("a", time[1], time[2], <<"t1">>, "p1")
    \/ CancelJobCall("a")
    \/ GetActiveJobsCall
    \/ \E h \in 1..Len(handles) : TimerExpires(h)
    \/ \E h \in 1..Len(handles) : FireStart(h)
    \/ \E i \in 1..Len(sends) : FireFinish(i)

SpecClock == Init /\ [][NextClock]_vars

\* The price alert: the startup that sets the polling interval, then polls
\* while time passes.
NextBtc ==
    \/ DmInit(TRUE, <<"t1">>)
    \/ ProbeAnswer("ok")
    \/ BootStart
    \/ StartValidated(0, TRUE)
    \/ StartMessage(0, "p1")
    \/ BootBtcTokens
    \/ BootBtcSchedule("p1")
    \/ Tick(CheckInterval, MaxPollNow)
    \/ BtcPollStart
    \/ \E success \in BOOLEAN, price \in BtcPrices : BtcPriceFetched(success, price)
    \/ \E i \in 1..Len(sends), ok \in BOOLEAN : GatewayReply(i, ok)
    \/ BtcAlertSent

SpecBtc == Init /\ [][NextBtc]_vars

\* The two schedule routes of the HTTP layer, with the registry's cancel.
NextHttp ==
    \/ \E name \in HttpNames, time \in DailyTimes, pushTokens \in HttpTokenLists,
          content \in HttpContents :
          ScheduleDailyRequest(name, time[1], time[2], pushTokens, content)
    \/ \E name \in HttpNames, cronExpression \in HttpCrons,
          pushTokens \in HttpTokenLists, content \in HttpContents :
          ScheduleCustomRequest(name, cronExpression, pushTokens, content)
    \/ \E name \in Names : CancelJobCall(name)

SpecHttp == Init /\ [][NextHttp]_vars

\* process.exit(1) in the startup callback ends the process.
Running == procs[0].pc # "exited"

\* The process from startup on: device loading, the probe, the startup
\* callback, a registration with its restart, the timers and fire
\* callbacks, and schedule, cancel and receipt requests.
NextLife ==
    \/ Running /\ \E ok \in BOOLEAN : DmInit(ok, <<"t1">>)
    \/ Running /\ \E answer \in ProbeAnswers : ProbeAnswer(answer)
    \/ Running /\ BootStart
    \/ Running /\ \E p \in {0, 1}, ratesOk \in BOOLEAN : StartValidated(p, ratesOk)
    \/ Running /\ \E p \in {0, 1} : StartMessage(p, "p1")
    \/ Running /\ BootBtcTokens
    \/ Running /\ BootBtcSchedule("p1")
    \/ Running /\ \E platform \in {"ios", "#deviceInfo"} : RegStart(1, "t2", platform)
    \/ Running /\ \E ok \in BOOLEAN : RegSaved(1, ok)
    \/ Running /\ RegSent(1)
    \/ Running /\ \E h \in 1..Len(handles) : TimeReached(h)
    \/ Running /\ \E h \in 1..Len(handles) : FireStart(h)
    \/ Running /\ \E i \in 1..Len(sends) : FireFinish(i)
    \/ Running /\ \E i \in 1..Len(sends), ok \in BOOLEAN : GatewayReply(i, ok)
    \/ Running /\ ScheduleCustomCall(JOB_NAME, "cron", <<"t1">>, "p1")
    \/ Running /\ CancelJobCall(JOB_NAME)
    \/ Running /\ ReceiptsCall(1, TRUE)

SpecLife == Init /\ [][NextLife]_vars

\* The request bodies sent: the documented shape (token and deviceInfo), the
\* device info under `platform`, a platform string, and unsupported
\* platforms in each place.
RegBodies ==
    { RegBody(token, shape[1], shape[2]) :
        token \in GoodTokens \cup {AltToken, "bad"},
        shape \in { <<"", "#deviceInfo">>, <<"#deviceInfo", "">>, <<"ios", "">>,
                    <<"windows", "">>, <<"#unsupported", "">>, <<"", "#unsupported">> } }

\* Startup and two registrations, each with its restart, interleaved at
\* every await; the gateway accepts what it is sent.
NextReg ==
    \/ Running /\ \E file \in {<<>>, <<"t1">>} : DmInit(TRUE, file)
    \/ Running /\ ProbeAnswer("ok")
    \/ Running /\ BootStart
    \/ Running /\ \E p \in ProcIds : StartValidated(p, TRUE)
    \/ Running /\ \E p \in ProcIds : StartMessage(p, "p1")
    \/ Running /\ BootBtcTokens
    \/ Running /\ BootBtcSchedule("p1")
    \/ Running /\ \E r \in RegIds, body \in RegBodies : RegRequest(r, body)
    \/ Running /\ \E r \in RegIds, ok \in BOOLEAN : RegSaved(r, ok)
    \/ Running /\ \E r \in RegIds : RegSent(r)
    \/ Running /\ \E i \in 1..Len(sends) : GatewayReply(i, TRUE)

SpecReg == Init /\ [][NextReg]_vars

\* Startup against feeds that answer or fail on every attempt, then the
\* timers and fires of the jobs it scheduled.
NextFeed ==
    \/ Running /\ \E ok \in BOOLEAN : DmInit(ok, <<"t1">>)
    \/ Running /\ \E answer \in ProbeAnswers : ProbeAnswer(answer)
    \/ Running /\ BootStart
    \/ Running /\ \E ratesOk \in BOOLEAN : StartValidated(0, ratesOk)
    \/ Running /\ StartMessage(0, "p1")
    \/ Running /\ BootBtcTokens
    \/ Running /\ \E success \in BOOLEAN : BootBtcSchedule(_getPriceMessage(success, "p2"))
    \/ Running /\ \E h \in 1..Len(handles) : TimeReached(h)
    \/ Running /\ \E h \in 1..Len(handles) : FireStart(h)
    \/ Running /\ \E i \in 1..Len(sends) : FireFinish(i)
    \/ Running /\ \E i \in 1..Len(sends), ok \in BOOLEAN : GatewayReply(i, ok)

SpecFeed == Init /\ [][NextFeed]_vars

\* Token checks between schedule and cancel calls and the probe.
NextToken ==
    \/ \E token \in Tokens : IsExpoPushTokenCall(token)
    \/ \E name \in Names, pushTokens \in TokenLists :
          ScheduleCustomCall(name, "cron", pushTokens, "p1")
    \/ \E name \in Names : CancelJobCall(name)
    \/ \E answer \in ProbeAnswers : ProbeAnswer(answer)

SpecToken == Init /\ [][NextToken]_vars

\* The exchange-rate schedule endpoint with the listing and DELETE
\* endpoints, and the timers and fires of the jobs created.
NextEx ==
    \/ DmInit(TRUE, <<"t1">>)
    \/ ProbeAnswer("ok")
    \/ \E r \in ReqIds, name \in Names, cronExpression \in CronExprs :
          ExReqStart(r, name, cronExpression)
    \/ \E r \in ReqIds : ExReqRates(r, TRUE, "p1")
    \/ \E r \in ReqIds : ExReqSchedule(r)
    \/ ListRequest
    \/ \E name \in Names : DeleteRequest(name)
    \/ \E h \in 1..Len(handles) : TimeReached(h)
    \/ \E h \in 1..Len(handles) : FireStart(h)
    \/ \E i \in 1..Len(sends) : FireFinish(i)
    \/ \E i \in 1..Len(sends) : GatewayReply(i, TRUE)

SpecEx == Init /\ [][NextEx]_vars

\* The test client's daily request at any minute of the clock, and DELETE
\* to free the name.
NextTest ==
    \/ Tick(1, MaxTestNow)
    \/ TestDailyRequest("a")
    \/ DeleteRequest("a")

SpecTest == Init /\ [][NextTest]_vars

\* One job over one chunk or two, cancelled and fired in any order, with
\* up to MaxOverlap fires in flight.
NextInFlight ==
    \/ ProbeAnswer("ok")
    \/ \E pushTokens \in {<<"t1">>, <<"t1", "t2", AltToken>>} :
          ScheduleCustomCall("a", "cron", pushTokens, "p1")
    \/ CancelJobCall("a")
    \/ \E h \in 1..Len(handles) : TimeReached(h)
    \/ \E h \in 1..Len(handles) : FireStartWithin(h, MaxOverlap)
    \/ \E i \in 1..Len(sends), ok \in BOOLEAN : GatewayReply(i, ok)
    \/ \E i \in 1..Len(sends) : FireFinish(i)

SpecInFlight == Init /\ [][NextInFlight]_vars

NextSend ==
    \/ \E answer \in ProbeAnswers : ProbeAnswer(answer)
    \/ \E messages \in MsgLists : SendCall(messages)
    \/ \E i \in 1..MaxSends, ok \in BOOLEAN : GatewayReply(i, ok)
    \/ \E i \in 1..MaxSends : SendReturn(i)

SpecSend == Init /\ [][NextSend]_vars

-----------------------------------------------------------------------------
(* Claims *)

ScheduleOps == {"scheduleDaily", "scheduleCustom"}
ThrownErrors ==
    {"name required", "already exists", "max jobs", "tokens required", "invalid token"}

\* A step changes no entry of the job map and no Job of the scheduler.
RegistryUnchanged == jobs' = jobs /\ handles' = handles /\ otherJobs' = otherJobs

\* C1: a schedule call (scheduleDaily or scheduleCustom) under a name that is
\* in the job map throws 'already exists' and leaves the entry of that name,
\* with its handle, trigger, tokens and payload, as it was.
C1_DuplicateNameRejected ==
    [][(lastCall'.op \in ScheduleOps /\ lastCall'.name \in DOMAIN jobs)
        => /\ lastCall'.result = "already exists"
           /\ RegistryUnchanged]_vars

\* C1 witness: a duplicate call was rejected while the name holds a live job.
C1_Witness ==
    /\ lastCall.op \in ScheduleOps
    /\ lastCall.result = "already exists"
    /\ lastCall.name \in DOMAIN jobs
    /\ jobs[lastCall.name] # NULL
    /\ handles[jobs[lastCall.name]].armed

\* C2 as stated: a scheduleCustom call whose cron expression does not parse
\* throws (returns no job) and leaves the job map unchanged, so that the name
\* is not in the map, getActiveJobs answers without listing it, and the name
\* can still be scheduled.  (Every scheduleCustom step either is such a
\* rejection without effect or is no call with the unparsable expression.)
C2_InvalidCronNoSideEffect ==
    [][lastCall'.op = "scheduleCustom"
        => \/ lastCall'.result \in ThrownErrors /\ RegistryUnchanged
           \/ \A pushTokens \in TokenLists, payload \in Payloads :
                ~ScheduleCustomCall(lastCall'.name, "garbage", pushTokens, payload)]_vars

BadTokenLists ==
    { l \in TokenLists :
        l = NotArray \/ Len(l) = 0 \/ \E i \in 1..Len(l) : ~isExpoPushToken(l[i]) }

\* C3: a schedule call whose token list is empty (or no array) or holds a
\* token isExpoPushToken rejects throws, arms no trigger and leaves the job
\* map, and so the listing of getActiveJobs, as it was: every schedule step
\* either is a rejection without effect or is no call with such a list.
\* (The payload plays no part in a call that throws, so one stands for all.)
C3_BadTokensRejected ==
    [][lastCall'.op \in ScheduleOps
        => \/ /\ lastCall'.result \in ThrownErrors
              /\ RegistryUnchanged
              /\ getActiveJobsNames' = getActiveJobsNames
           \/ \A pushTokens \in BadTokenLists :
                /\ \A time \in DailyTimes :
                     ~ScheduleDailyCall(lastCall'.name, time[1], time[2], pushTokens, "p1")
                /\ \A cronExpression \in CronExprs :
                     ~ScheduleCustomCall(lastCall'.name, cronExpression, pushTokens, "p1")]_vars

\* C3 witness: a call with a free name was refused for its tokens while the
\* registry holds a live job.
C3_Witness ==
    /\ lastCall.op \in ScheduleOps
    /\ lastCall.result \in {"tokens required", "invalid token"}
    /\ lastCall.name \notin DOMAIN jobs
    /\ \E n \in DOMAIN jobs : jobs[n] # NULL

\* The Job with handle h is the entry of its name in the job map.
InMap(h) == handles[h].name \in DOMAIN jobs /\ jobs[handles[h].name] = h

\* The number of fire callbacks of handle h that have started and not ended.
FiresOf(ss, h) == Cardinality({i \in 1..Len(ss) : ss[i].owner = h})

\* C4: once cancelJob(name) has returned true the job is absent from
\* getActiveJobs (the step removes the name from the map) and no fire of that
\* job starts at any later time: a Job that is not the map's entry of its
\* name never starts a fire, also when its time had been reached.
C4_CancelledNeverFires ==
    [][/\ (lastCall'.op = "cancelJob" /\ lastCall'.result = "true")
           => lastCall'.name \notin DOMAIN jobs'
       /\ \A h \in 1..Len(handles) :
            ~InMap(h) => /\ ~InMap(h)'
                         /\ FiresOf(sends', h) <= FiresOf(sends, h)]_vars

\* C4 witness: cancelJob has just returned true for a job whose scheduled
\* time had been reached and whose callback had not yet run.
C4_Witness ==
    /\ lastCall.op = "cancelJob" /\ lastCall.result = "true"
    /\ \E h \in 1..Len(handles) :
         handles[h].name = lastCall.name /\ ~InMap(h) /\ handles[h].due

\* C5 as stated: cancelJob(name) returns true exactly when name is in the job
\* map before the call; afterwards the name is not in the map and every other
\* entry is unchanged.
C5_CancelReturnsMembership ==
    [][lastCall'.op = "cancelJob"
        => /\ (lastCall'.result = "true") <=> (lastCall'.name \in DOMAIN jobs)
           /\ lastCall'.name \notin DOMAIN jobs'
           /\ \A n \in DOMAIN jobs \ {lastCall'.name} :
                n \in DOMAIN jobs' /\ jobs'[n] = jobs[n]]_vars

\* No two armed Jobs bear the same name, and an armed Job is the map's entry.
UniqueActiveNames ==
    \A h \in 1..Len(handles) : handles[h].armed => InMap(h)

GoodTokenLists == TokenLists \ BadTokenLists

\* C6: job names are unique among the active jobs, and a schedule call made
\* right after cancelJob(name) returned true, with the same name, is never
\* refused for the name; with valid arguments it succeeds, stores a new Job
\* under the name and leaves every other entry and every other Job as it was.
C6_CancelledNameReusable ==
    [][/\ UniqueActiveNames'
       /\ ( /\ lastCall.op = "cancelJob" /\ lastCall.result = "true"
            /\ lastCall'.op \in ScheduleOps /\ lastCall'.name = lastCall.name )
          => /\ lastCall'.result \notin {"name required", "already exists", "max jobs"}
             /\ \/ /\ lastCall'.result = "ok"
                   /\ jobs'[lastCall'.name] = Len(handles) + 1
                   /\ SubSeq(handles', 1, Len(handles)) = handles
                   /\ \A n \in DOMAIN jobs : jobs'[n] = jobs[n]
                \/ \A pushTokens \in GoodTokenLists, payload \in Payloads :
                     /\ ~ScheduleDailyCall(lastCall'.name, 9, 0, pushTokens, payload)
                     /\ ~ScheduleCustomCall(lastCall'.name, "cron", pushTokens, payload)]_vars

\* C6 witness: a name holds a new Job after an earlier Job of that name was
\* cancelled.
C6_Witness ==
    /\ lastCall.op \in ScheduleOps /\ lastCall.result = "ok"
    /\ \E h \in 1..Len(handles) :
         /\ handles[h].name = lastCall.name
         /\ ~handles[h].armed
         /\ jobs[lastCall.name] > h

\* C7 as stated: the job map never holds more than MAX_JOBS entries, and a
\* schedule call made while it holds MAX_JOBS entries throws 'Maximum number
\* of jobs reached' and leaves the map unchanged.
C7_CapAsStated ==
    [][/\ jobsSize' <= MAX_JOBS
       /\ (lastCall'.op \in ScheduleOps /\ jobsSize = MAX_JOBS)
          => /\ lastCall'.result = "max jobs"
             /\ RegistryUnchanged]_vars

\* C7 amended: the job map never holds more than MAX_JOBS entries, and a
\* schedule call made while it holds MAX_JOBS entries throws and leaves the
\* map unchanged; the error is 'Maximum number of jobs reached' unless the
\* name is missing or already in the map, which is reported first.
C7_CapEnforced ==
    [][/\ jobsSize' <= MAX_JOBS
       /\ (lastCall'.op \in ScheduleOps /\ jobsSize = MAX_JOBS)
          => /\ lastCall'.result =
                  IF lastCall'.name = "" THEN "name required"
                  ELSE IF lastCall'.name \in DOMAIN jobs THEN "already exists"
                  ELSE "max jobs"
             /\ RegistryUnchanged]_vars

\* C7 witness: a call was refused for the cap while the map is full and
\* holds a followed job among the others.
C7_Witness ==
    /\ jobsSize = MAX_JOBS
    /\ DOMAIN jobs # {}
    /\ lastCall.op \in ScheduleOps /\ lastCall.result = "max jobs"

\* The two requests, in either order.
ReqPairs == {p \in ReqIds \X ReqIds : p[1] # p[2]}

\* Both requests have been answered after calling scheduleCustom with the
\* same name and a cron expression that parses.
BothScheduled(w, l) ==
    /\ reqs[w].pc = "done" /\ reqs[l].pc = "done"
    /\ reqs[w].result # "" /\ reqs[l].result # ""
    /\ reqs[w].name = reqs[l].name
    /\ CronParses(reqs[w].cron) /\ CronParses(reqs[l].cron)

\* C8: of two exchange-rate schedule requests with the same name whose
\* handlers interleave in any order, exactly one creates the job; the other
\* fails with 'already exists', and the map's entry is the winner's Job with
\* the winner's tokens and body.
C8_OneWinner ==
    \A p \in ReqPairs :
        BothScheduled(p[1], p[2])
        => /\ reqs[p[1]].result = "ok" \/ reqs[p[2]].result = "ok"
           /\ reqs[p[1]].result = "ok"
              => /\ reqs[p[2]].result = "already exists"
                 /\ reqs[p[2]].status = 500
                 /\ jobs[reqs[p[1]].name] = reqs[p[1]].handle
                 /\ handles[reqs[p[1]].handle].payload = reqs[p[1]].body
                 /\ handles[reqs[p[1]].handle].tokens = reqs[p[1]].tokens
                 /\ handles[reqs[p[1]].handle].armed

\* C8 witness: the loser started while the winner was in flight, and the
\* two carry different bodies.
C8_Witness ==
    \E p \in ReqPairs :
        /\ BothScheduled(p[1], p[2])
        /\ reqs[p[1]].result = "ok" /\ reqs[p[2]].result = "already exists"
        /\ reqs[p[2]].overlap
        /\ reqs[p[1]].body # reqs[p[2]].body

\* C9: a sendNotifications call with an empty message list, or made while
\* the availability flag is not set (the probe pending or failed), has
\* returned an empty ticket list without beginning any gateway send.
C9_NoSendWhenUnavailable ==
    \A i \in 1..Len(sends) :
        (Len(sends[i].msgs) = 0 \/ ~sends[i].avail)
        => /\ sends[i].st = "done"
           /\ sends[i].tickets = <<>>
           /\ sends[i].attempts = 0

\* C9 witness: a call with a non-empty list returned while the dispatcher
\* is Unavailable.
C9_Witness ==
    /\ probe = "unavailable"
    /\ \E i \in 1..Len(sends) :
         /\ Len(sends[i].msgs) > 0 /\ ~sends[i].avail
         /\ sends[i].st = "done"

\* The tickets of the chunks 1..k of a call that the gateway accepted, in
\* submission order.
RECURSIVE TicketsOfAccepted(_, _)
TicketsOfAccepted(s, k) ==
    IF k = 0 THEN <<>>
    ELSE TicketsOfAccepted(s, k - 1)
         \o (IF k \in s.failed THEN <<>> ELSE TicketsOf(s.chunks[k]))

RECURSIVE Flatten(_)
Flatten(chunks) ==
    IF Len(chunks) = 0 THEN <<>> ELSE Head(chunks) \o Flatten(Tail(chunks))

\* C10: whatever chunks the gateway fails, a sendNotifications call that
\* passed validation and chunking attempts every chunk of its message list
\* and returns exactly the tickets of the chunks that succeeded, in
\* submission order; while it runs it holds the tickets of the accepted
\* chunks answered so far.
C10_PartialSuccess ==
    \A i \in 1..Len(sends) :
        Len(sends[i].chunks) > 0
        => /\ Flatten(sends[i].chunks) = sends[i].msgs
           /\ sends[i].tickets = TicketsOfAccepted(sends[i], sends[i].next - 1)
           /\ sends[i].st = "done"
              => /\ sends[i].next = Len(sends[i].chunks) + 1
                 /\ sends[i].attempts = Len(sends[i].chunks)

\* C10 witness: a call of several chunks has returned after an earlier chunk
\* failed and a later one succeeded.
C10_Witness ==
    \E i \in 1..Len(sends) :
        /\ sends[i].st = "done"
        /\ Len(sends[i].chunks) >= 2
        /\ 1 \in sends[i].failed
        /\ Len(sends[i].chunks) \notin sends[i].failed
        /\ Len(sends[i].tickets) > 0

\* C11: the startup probe sets the availability flag to true when the probe
\* call succeeds or fails with the code PUSH_TOO_MANY_EXPERIENCE_IDS, and to
\* false for every other error; no step other than the probe's completion
\* changes the flag.
C11_ProbeOutcome ==
    [][/\ lastCall'.op = "initializeService"
          => /\ probe = "probing"
             /\ serviceAvailable'
                  = (lastCall'.result \in {"ok", "PUSH_TOO_MANY_EXPERIENCE_IDS"})
             /\ probe' = IF serviceAvailable' THEN "available" ELSE "unavailable"
       /\ (serviceAvailable' # serviceAvailable \/ probe' # probe)
          => lastCall'.op = "initializeService"]_vars

\* C11 witness: the probe failed with the expected error code and the
\* dispatcher is Available.
C11_Witness ==
    /\ lastCall = Call("initializeService", "", "PUSH_TOO_MANY_EXPERIENCE_IDS")
    /\ serviceAvailable /\ probe = "available"

\* C12: once the probe has failed the dispatcher stays Unavailable: no step
\* of a send, receipt fetch, schedule, cancel, listing, fire, registration or
\* restart probes again or sets the availability flag.
C12_StaysUnavailable ==
    [][probe = "unavailable"
        => /\ ~serviceAvailable
           /\ probe' = "unavailable"
           /\ ~serviceAvailable']_vars

\* C12 witness: with the dispatcher Unavailable a registration has sent its
\* test notification and restarted the updater, a fire callback's send was
\* refused, and a receipt fetch has just returned.
C12_Witness ==
    /\ probe = "unavailable" /\ ~serviceAvailable
    /\ procs[1].pc = "done" /\ procs[1].status = 200
    /\ lastCall.op = "getPushNotificationReceipts"
    /\ \E i \in 1..Len(sends) :
         sends[i].owner > 0 /\ sends[i].st = "done" /\ ~sends[i].avail

\* The steps of a fire: the callback starting, the gateway answering its
\* send, the callback resuming.
FireStep == fires' # fires \/ \E i \in 1..Len(sends) : sends[i].owner > 0 /\ sends' # sends

\* C13: no step of a fire callback, whatever becomes of its send, changes
\* the job map or disarms, renames or re-targets a Job: the callback
\* completes, and a Job whose run delivered nothing is still in the registry
\* with its trigger armed for the next time.
C13_FireFailureContained ==
    [][/\ FireStep
          => /\ jobs' = jobs /\ otherJobs' = otherJobs
             /\ Len(handles') = Len(handles)
             /\ \A h \in 1..Len(handles) :
                  handles'[h] = [handles[h] EXCEPT !.due = handles'[h].due,
                                                  !.next = handles'[h].next]
       /\ \A h \in DOMAIN fires' :
            \A k \in 1..Len(fires'[h]) :
               (k \in 1..FiresCount(h) /\ fires[h][k] = "running" /\ fires'[h][k] = "failed")
               => /\ handles'[h].armed = handles[h].armed
                  /\ (InMap(h) => InMap(h)' /\ handles'[h].armed)]_vars

\* C13 witness: a Job whose first run delivered nothing has fired again.
C13_Witness ==
    \E h \in DOMAIN fires :
        /\ Len(fires[h]) = 2
        /\ fires[h][1] = "failed"
        /\ InMap(h) /\ handles[h].armed

\* The callback of Job h starts in this step.
Fired(h) == FiresCount(h)' = FiresCount(h) + 1

\* C14: a fire of a Job calls sendNotifications exactly once, with one
\* message per token of the Job's token list, the i-th message addressed to
\* the i-th token.
C14_OneMessagePerToken ==
    [][\A h \in 1..Len(handles) :
         Fired(h)
         => /\ Len(sends') = Len(sends) + 1
            /\ SubSeq(sends', 1, Len(sends)) = sends
            /\ LET call == sends'[Len(sends')]
               IN  /\ call.owner = h
                   /\ Len(call.msgs) = Len(handles[h].tokens)
                   /\ \A i \in 1..Len(call.msgs) :
                        /\ call.msgs[i] # NullMsg
                        /\ call.msgs[i].to = handles[h].tokens[i]]_vars

\* C14 witness: a Job scheduled with two tokens is in its first fire and the
\* dispatcher holds its call, of two messages.
C14_Witness ==
    \E h \in DOMAIN fires :
        /\ handles[h].tokens = <<"t1", "t2">>
        /\ fires[h] = <<"running">>
        /\ Len(sends) = 1
        /\ sends[1].owner = h /\ Len(sends[1].msgs) = 2

\* The Job a step creates, if it creates one.
Created == Len(handles') = Len(handles) + 1
NewJob == handles'[Len(handles')]

DailyListed == {n \in DOMAIN jobs : jobs[n] # NULL /\ handles[jobs[n]].trigger.kind = "daily"}

\* job.nextInvocation() as getActiveJobs reports it: the date of the Job's
\* pending invocation.
nextInvocation(n) == handles[jobs[n]].next

\* u is the earliest instant strictly after t whose local time is hour:minute.
EarliestAfter(u, t, hour, minute) ==
    /\ u > t
    /\ LocalMinute(u) = hour * 60 + minute
    /\ \A v \in (t + 1)..(u - 1) : LocalMinute(v) # hour * 60 + minute

ScheduledNames == {handles[h].name : h \in {g \in 1..Len(handles) : handles[g].armed}}

\* C17: every getActiveJobs call returns without error, lists exactly the
\* names scheduled successfully and not cancelled since, and changes neither
\* the job map nor any trigger.
C17_ListingSnapshot ==
    [][lastCall'.op = "getActiveJobs"
        => /\ lastCall'.result = "ok"
           /\ getActiveJobsNames = ScheduledNames
           /\ RegistryUnchanged]_vars

\* The polls before the k-th that sent an alert.
AlertsBefore(k) == {j \in 1..(k - 1) : btc.polls[j].alerted}

\* The last of them.
LastAlertBefore(k) == CHOOSE j \in AlertsBefore(k) : \A i \in AlertsBefore(k) : i <= j

\* C18: over the successful polls of the alerting loop, a poll sends an
\* alert exactly when its price is below the threshold 80000 and no alert
\* was sent before, or more than 30 minutes have passed since the last
\* alert, or the price is below 95% of the last alert's price.
C18_AlertRule ==
    \A k \in 1..Len(btc.polls) :
        btc.polls[k].alerted
        <=> /\ btc.polls[k].price < 80000
            /\ \/ AlertsBefore(k) = {}
               \/ /\ AlertsBefore(k) # {}
                  /\ \/ btc.polls[k].at - btc.polls[LastAlertBefore(k)].at > 30
                     \/ 100 * btc.polls[k].price < 95 * btc.polls[LastAlertBefore(k)].price

\* C18 witness: 79000 at the first poll alerts, 78900 at the next does not,
\* 74000 within the cooldown alerts again.
C18_Witness ==
    /\ Len(btc.polls) = 3
    /\ btc.polls[1].price = 79000 /\ btc.polls[1].alerted
    /\ btc.polls[2].price = 78900 /\ ~btc.polls[2].alerted
    /\ btc.polls[3].price = 74000 /\ btc.polls[3].alerted
    /\ btc.polls[3].at - btc.polls[1].at <= 30

-----------------------------------------------------------------------------
\* What the claim calls malformed: a missing name, an empty or missing token
\* list, an unparseable cron expression (custom route).
Malformed(name, pushTokens) == name = "" \/ NoTokenList(pushTokens)

\* C19: every malformed schedule request to the HTTP layer (missing name,
\* empty or missing token list, unparseable cron expression) gets an error
\* response, and the job registry is the same after the request as before.
C19_MalformedRejected ==
    [][/\ \A name \in HttpNames, time \in DailyTimes, pushTokens \in HttpTokenLists,
             content \in HttpContents :
             /\ Malformed(name, pushTokens)
             /\ ScheduleDailyRequest(name, time[1], time[2], pushTokens, content)
             => lastCall'.result \in {"400", "500"} /\ RegistryUnchanged
       /\ \A name \in HttpNames, cronExpression \in HttpCrons,
             pushTokens \in HttpTokenLists, content \in HttpContents :
             /\ Malformed(name, pushTokens) \/ ~CronParses(cronExpression)
             /\ ScheduleCustomRequest(name, cronExpression, pushTokens, content)
             => lastCall'.result \in {"400", "500"} /\ RegistryUnchanged]_vars

-----------------------------------------------------------------------------
\* The armed triggers registered under the updater's job name.
ArmedUpdaterJobs(hs) == {h \in 1..Len(hs) : hs[h].name = JOB_NAME /\ hs[h].armed}

\* The step on which the restart of registration r completes without error:
\* its start() has scheduled the job and the handler answers 200.
RestartCompletes(r) ==
    procs[r].pc = "message" /\ procs'[r].pc = "done" /\ procs'[r].status = 200

\* C20: restart() is stop() then start(): when a restart completes without
\* error with at least one active token, exactly one job named
\* 'exchange-rate-update' is registered, every trigger armed under that name
\* before is disarmed, and the new job's recipients are the tokens read
\* during that start.
C20_RestartReplacesJob ==
    [][\A r \in RegIds :
         RestartCompletes(r) /\ Len(procs[r].tokens) > 0
         => /\ Created
            /\ JOB_NAME \in DOMAIN jobs' /\ jobs'[JOB_NAME] = Len(handles')
            /\ updaterJob' = Len(handles')
            /\ ArmedUpdaterJobs(handles') = {Len(handles')}
            /\ NewJob.name = JOB_NAME
            /\ NewJob.tokens = procs[r].tokens]_vars

\* A registration's restart has replaced the job the startup scheduled: the
\* first trigger is disarmed, the second is armed for both devices.
C20_Witness ==
    /\ procs[1].pc = "done" /\ procs[1].status = 200
    /\ Len(handles) = 2
    /\ handles[1].name = JOB_NAME /\ ~handles[1].armed /\ handles[1].tokens = <<"t1">>
    /\ handles[2].name = JOB_NAME /\ handles[2].armed
    /\ handles[2].tokens = <<"t1", "t2">>
    /\ updaterJob = 2 /\ JOB_NAME \in DOMAIN jobs /\ jobs[JOB_NAME] = 2

-----------------------------------------------------------------------------
\* The names of the feed updaters' jobs.
FeedJobs == {JOB_NAME, REGULAR_UPDATE_JOB}

\* token is among the recipients of the job registered under name n.
Receives(js, hs, n, token) ==
    \E i \in 1..Len(hs[js[n]].tokens) : hs[js[n]].tokens[i] = token

\* C21: when a registration request responds success, the recipient list of
\* every registered feed-updater job ('exchange-rate-update' and
\* 'btc-price-update') contains the newly registered token.
C21_FeedJobsIncludeNewToken ==
    [][\A r \in RegIds :
         RestartCompletes(r)
         => \A n \in FeedJobs :
              n \in DOMAIN jobs' /\ jobs'[n] # NULL
              => Receives(jobs', handles', n, procs[r].token)]_vars

-----------------------------------------------------------------------------
\* C22: a feed updater validates its feed before arming a trigger: when the
\* feed fetch fails at start(), start() registers no job, for the
\* exchange-rate updater and for the BTC price monitor alike.
C22_NoJobOnFeedFailure ==
    [][/\ StartValidated(0, FALSE) => RegistryUnchanged
       /\ BootBtcSchedule(_getPriceMessage(FALSE, "p2")) => RegistryUnchanged]_vars

\* C23: a feed that fails on all attempts never ends the process, at startup
\* or later: the failure is caught and the process keeps running.
C23_FeedFailureKeepsRunning ==
    [][/\ (~getActiveTokensThrows /\ \E p \in ProcIds : StartValidated(p, FALSE))
          => Running'
       /\ BootBtcSchedule(_getPriceMessage(FALSE, "p2")) => Running']_vars

-----------------------------------------------------------------------------
\* C24: isExpoPushToken never throws: it returns false for an empty or
\* missing token and for a token on which the gateway check raises an error,
\* otherwise the gateway check's result, and it changes no state.
C24_TokenCheckTotal ==
    [][\A token \in Tokens :
         IsExpoPushTokenCall(token)
         => /\ lastCall'.result \in {"true", "false"}
            /\ token = "" \/ ExpoCheck(token) = "throws" => lastCall'.result = "false"
            /\ token # "" /\ ExpoCheck(token) # "throws"
               => lastCall'.result = ExpoCheck(token)
            /\ RegistryUnchanged
            /\ UNCHANGED <<serviceAvailable, probe, sends, devices, fetch, rcpt>>]_vars

\* The check has answered false for a token on which the gateway check
\* raises, with a job registered.
C24_Witness ==
    /\ lastCall = Call("isExpoPushToken", "odd", "false")
    /\ ExpoCheck("odd") = "throws"
    /\ Len(handles) > 0

-----------------------------------------------------------------------------
\* token is a key of DeviceManager.devices.
Stored(ds, token) == \E i \in 1..Len(ds) : ds[i] = token

\* C25: a registration request of the documented shape (token, and
\* deviceInfo with platform 'ios' or 'android' and a deviceName) with a valid
\* Expo token is answered with success and leaves the device stored under
\* that token.
C25_DocumentedRegistration ==
    [][\A r \in RegIds, token \in GoodTokens :
         initialized = "yes" /\ RegRequest(r, RegBody(token, "", "#deviceInfo"))
         => /\ procs'[r].status \notin {400, 500}
            /\ Stored(devices', token)]_vars

\* The platform a request names is unsupported.
UnsupportedBody(body) ==
    body.platform \in UnsupportedPlatforms \/ body.deviceInfo = "#unsupported"

\* C26: a registration request with a token that is no valid Expo push
\* token, or with an unsupported platform, is answered with an error, stores
\* no device, sends no notification and does not restart the updater.
C26_BadRegistrationRejected ==
    [][\A r \in RegIds, body \in RegBodies :
         /\ ~isExpoPushToken(body.token) \/ UnsupportedBody(body)
         /\ RegRequest(r, body)
         => /\ procs'[r].pc = "done" /\ procs'[r].status \in {400, 500}
            /\ devices' = devices /\ sends' = sends
            /\ RegistryUnchanged /\ updaterJob' = updaterJob]_vars

\* A request for a valid token was answered 500 before the device was stored
\* (the platform was refused), while the updater's job stays as it was.
C26_Witness ==
    /\ initialized = "yes"
    /\ procs[2].pc = "done" /\ procs[2].status = 500 /\ procs[2].token = "t2"
    /\ ~Stored(devices, "t2")
    /\ updaterJob # NULL /\ handles[updaterJob].armed

-----------------------------------------------------------------------------
\* The names whose entry is a job an exchange-rate schedule request created
\* (and that has not been cancelled since).
ExJobs ==
    {n \in DOMAIN jobs :
       \E r \in ReqIds : /\ reqs[r].pc = "done" /\ reqs[r].result = "ok"
                         /\ reqs[r].name = n /\ jobs[n] = reqs[r].handle}

\* C27: a job created through the exchange-rate schedule endpoint is listed
\* by the active-jobs endpoint under its name until it is cancelled, and a
\* DELETE by that name answers success, not 404, also after the job has
\* fired in between.
C27_ListedUntilDeleted ==
    [][/\ ListRequest
          => \A n \in ExJobs : lastCall'.result = "200" /\ n \in getActiveJobsNames
       /\ \A n \in ExJobs :
            DeleteRequest(n)
            => /\ lastCall'.result = "200"
               /\ n \notin DOMAIN jobs'
               /\ ~handles'[jobs[n]].armed]_vars

-----------------------------------------------------------------------------
\* C28: a daily-schedule request built as the test builds it (hour = current
\* hour, minute = current minute + 1, a fresh name, valid tokens, title and
\* body) is answered with success at every current time and leaves an
\* active job under that name with a next invocation.
C28_TestDailyRequestSucceeds ==
    [][\A name \in Names :
         name \notin DOMAIN jobs /\ TestDailyRequest(name)
         => /\ lastCall'.result = "200"
            /\ name \in DOMAIN jobs' /\ jobs'[name] # NULL
            /\ handles'[jobs'[name]].armed
            /\ handles'[jobs'[name]].next > now]_vars

-----------------------------------------------------------------------------
\* The sends of h's callback that are awaiting the gateway.
InFlight(h) == {i \in 1..Len(sends) : sends[i].owner = h /\ sends[i].st = "running"}

\* C29: cancelJob while a fire of the job is in progress does not abort it:
\* the fire in flight has handed all its messages to the dispatcher, every
\* chunk of them is sent, and the callback completes; only fires that had
\* not started at the cancellation are prevented.
C29_CancelKeepsFireInFlight ==
    [][/\ \A name \in Names : CancelJobCall(name) => sends' = sends /\ fires' = fires
       /\ \A i \in 1..Len(sends) :
            FireFinish(i)
            => /\ sends[i].msgs = FireMessages(sends[i].owner)
               /\ sends[i].attempts = Len(sends[i].chunks)
               /\ \A h \in 1..Len(handles), k \in 1..MaxFires :
                    h = sends[i].owner /\ k = RunOf(i)
                    => /\ Len(fires'[h]) = Len(fires[h])
                       /\ fires'[h][k] \in {"sent", "failed"}
       /\ \A h \in 1..Len(handles) : Fired(h) => handles[h].armed]_vars

\* cancelJob has just returned true for a job whose fire over two chunks is
\* awaiting the gateway.
C29_Witness ==
    /\ lastCall = Call("cancelJob", "a", "true")
    /\ \E h \in 1..Len(handles) :
         /\ ~handles[h].armed
         /\ \E i \in InFlight(h) : Len(sends[i].chunks) = 2

\* C30: no two fires of the same job run at the same time: a fire never
\* starts while the asynchronous body of the job's previous fire is running.
C30_NoOverlappingFires ==
    \A h \in 1..Len(handles) : Cardinality(InFlight(h)) <= 1

-----------------------------------------------------------------------------
\* Token lists with several refused tokens in either order, next to valid
\* lists and the two lists refused as a whole.
OrderedTokenLists ==
    { <<"bad", "odd">>, <<"odd", "bad">>, <<"t1", "", "bad">>, <<"t1", "bad", "">>,
      <<"t1">>, <<"t1", "t2">>, <<>>, NotArray }

\* The registry's schedule and cancel calls over those lists.
NextOrder ==
    \/ \E name \in NameArgs, pushTokens \in OrderedTokenLists :
            ScheduleCustomCall(name, "cron", pushTokens, "p1")
    \/ \E name \in NameArgs, pushTokens \in OrderedTokenLists :
            ScheduleDailyCall(name, 9, 0, pushTokens, "p2")
    \/ \E name \in Names : CancelJobCall(name)

SpecOrder == Init /\ [][NextOrder]_vars

\* The first position of the list whose token isExpoPushToken refuses.
FirstRefused(l) ==
    CHOOSE i \in 1..Len(l) :
      ~isExpoPushToken(l[i]) /\ \A j \in 1..(i - 1) : isExpoPushToken(l[j])

\* C33: token validation in a schedule call fails fast on the first invalid
\* token in list order, the error names that token, and the job name is
\* validated (non-empty, no duplicate, below the cap) before any token is
\* examined.
C33_FirstInvalidTokenNamed ==
    [][\A name \in NameArgs, pushTokens \in OrderedTokenLists :
         (\/ ScheduleCustomCall(name, "cron", pushTokens, "p1")
          \/ ScheduleDailyCall(name, 9, 0, pushTokens, "p2"))
         => /\ _validateJobName(name) # "ok"
               => lastCall'.result = _validateJobName(name) /\ lastCall'.token = ""
            /\ /\ _validateJobName(name) = "ok"
               /\ pushTokens # NotArray
               /\ \E i \in 1..Len(pushTokens) : ~isExpoPushToken(pushTokens[i])
               => /\ lastCall'.result = "invalid token"
                  /\ lastCall'.token = pushTokens[FirstRefused(pushTokens)]
                  /\ jobs' = jobs /\ handles' = handles]_vars

\* With a job registered, a schedule call under a fresh name has thrown the
\* error naming "odd", which stands first in a list of two refused tokens.
C33_Witness ==
    /\ lastCall.op \in {"scheduleDaily", "scheduleCustom"}
    /\ lastCall.result = "invalid token"
    /\ lastCall.token = "odd"
    /\ lastCall.name \notin DOMAIN jobs
    /\ Len(handles) > 0

-----------------------------------------------------------------------------
\* C34: every entry of the job map holds a live, armed Job, never null: a
\* scheduleDaily with an hour or minute outside the clock, and a schedule call
\* whose trigger the scheduler refuses, add no entry.
C34_EntriesAreArmedJobs ==
    \A n \in DOMAIN jobs : jobs[n] # NULL /\ handles[jobs[n]].armed

-----------------------------------------------------------------------------
\* The feed fetches of both services, each call in any outcome.
NextFetch ==
    \/ \E s \in FeedServices : FetchCall(s)
    \/ \E s \in FeedServices, response \in Responses : GetResolves(s, response)
    \/ \E s \in FeedServices : GetRejects(s)
    \/ \E s \in FeedServices : DelayElapses(s)
    \/ CacheExpires

\* axios.get settles within its TIMEOUT and a timer set fires.
FetchFairness ==
    \A s \in FeedServices :
      /\ WF_vars(GetRejects(s) \/ \E response \in Responses : GetResolves(s, response))
      /\ WF_vars(DelayElapses(s))

SpecFetch == Init /\ [][NextFetch]_vars /\ FetchFairness

\* What holds of a fetch at every moment.
FetchBounded(f) ==
    /\ f.attempts <= RETRY_COUNT
    /\ f.pc = "get" => f.waited = (f.attempts - 1) * RETRY_DELAY
    /\ f.okAt # NULL => f.pc = "done" /\ f.attempts = f.okAt /\ f.thrown = NULL
    /\ f.thrown # NULL
         => /\ f.pc = "done"
            /\ f.attempts = RETRY_COUNT
            /\ f.thrown = RETRY_COUNT
            /\ f.success = FALSE

\* C31: a feed fetch with retry ends after at most RETRY_COUNT attempts, one
\* RETRY_DELAY apart: the first response is returned with no further attempt,
\* and after RETRY_COUNT rejections the last error is thrown and the caller
\* (_fetchPrice, getExchangeRates) returns {success: false}; every fetch
\* begun returns.
C31_FetchRetryBounded ==
    /\ [](\A s \in FeedServices : FetchBounded(fetch[s]))
    /\ \A s \in FeedServices : (fetch[s].pc = "get") ~> (fetch[s].pc = "done")

\* One service has given up after its third rejection while the other got
\* its response at the second attempt.
C31_Witness ==
    /\ fetch["btc"].thrown = RETRY_COUNT /\ fetch["btc"].success = FALSE
    /\ fetch["rates"].okAt = 2 /\ fetch["rates"].waited = RETRY_DELAY

-----------------------------------------------------------------------------
\* Receipt queries over every ticket list, the gateway answering or failing
\* chunk by chunk.
NextReceipts ==
    \/ \E tickets \in TicketLists : GetReceipts(tickets)
    \/ \E ok \in BOOLEAN : ReceiptsReply(ok)

SpecReceipts == Init /\ [][NextReceipts]_vars

\* The ids of the tickets, in ticket order, without the tickets lacking one.
IdsCarried(tickets) ==
    LET at == {i \in 1..Len(tickets) : tickets[i].id # NoId}
        RECURSIVE upto(_)
        upto(n) == IF n = 0 THEN <<>>
                   ELSE upto(n - 1) \o (IF n \in at THEN <<tickets[n].id>> ELSE <<>>)
    IN  upto(Len(tickets))

\* The chunks among the first k that the gateway answered, in order.
RECURSIVE Answered(_, _)
Answered(r, k) ==
    IF k = 0 THEN <<>>
    ELSE Answered(r, k - 1) \o (IF k \in r.failed THEN <<>> ELSE <<r.chunks[k]>>)

\* C32: getPushNotificationReceipts queries only the tickets that carry a
\* receipt id, in chunks of at most the gateway's size; a chunk whose fetch
\* fails is left out of the result and later chunks are still fetched; with
\* no id among the tickets it returns an empty list without a gateway call.
C32_ReceiptsPerChunk ==
    /\ Flatten(rcpt.chunks) = (IF rcpt.pc = "idle" THEN <<>> ELSE IdsCarried(rcpt.tickets))
    /\ \A k \in 1..Len(rcpt.chunks) :
         Len(rcpt.chunks[k]) \in 1..ChunkLimit
    /\ rcpt.receipts = Answered(rcpt, rcpt.next - 1)
    /\ rcpt.pc = "await" => rcpt.calls = rcpt.next /\ rcpt.next <= Len(rcpt.chunks)
    /\ rcpt.pc = "done"
         => /\ rcpt.calls = Len(rcpt.chunks)
            /\ rcpt.next = Len(rcpt.chunks) + 1
            /\ IdsCarried(rcpt.tickets) = <<>> => rcpt.calls = 0 /\ rcpt.receipts = <<>>

\* A call over two chunks has returned the second chunk's receipts alone,
\* the first fetch having failed; an id-less ticket was not queried.
C32_Witness ==
    /\ rcpt.pc = "done"
    /\ Len(rcpt.chunks) = 2
    /\ rcpt.failed = {1}
    /\ rcpt.receipts = <<rcpt.chunks[2]>>
    /\ \E i \in 1..Len(rcpt.tickets) : rcpt.tickets[i].id = NoId

\* A call over tickets none of which carries an id has returned.
C32_WitnessNoIds ==
    /\ rcpt.pc = "done"
    /\ Len(rcpt.tickets) > 0
    /\ rcpt.calls = 0

-----------------------------------------------------------------------------
\* Two registrations of well-formed bodies on a server whose startup found
\* no device and scheduled nothing, interleaved at every await; the file
\* write succeeds and the gateway accepts what it is sent.
NextTwoRegs ==
    \/ DmInit(TRUE, <<>>)
    \/ ProbeAnswer("ok")
    \/ \E r \in RegIds, token \in GoodTokens :
            RegRequest(r, RegBody(token, "#deviceInfo", ""))
    \/ \E r \in RegIds : RegSaved(r, TRUE)
    \/ \E r \in RegIds : RegSent(r)
    \/ \E r \in RegIds : StartValidated(r, TRUE)
    \/ \E r \in RegIds : StartMessage(r, "p1")
    \/ \E i \in 1..Len(sends) : GatewayReply(i, TRUE)

SpecTwoRegs == Init /\ [][NextTwoRegs]_vars

\* C35: when two registrations are handled concurrently, so that their two
\* restart() calls interleave at their awaits, both restarts complete without
\* error and exactly one 'exchange-rate-update' job is registered afterwards:
\* every start() that reaches its scheduleCustom call ends with the request
\* answered 200 and one armed job of that name.
C35_InterleavedRestartsComplete ==
    [][\A r \in RegIds :
         procs[r].pc = "message" /\ procs'[r].pc = "done"
         => /\ procs'[r].status = 200
            /\ Cardinality(ArmedUpdaterJobs(handles')) = 1]_vars

-----------------------------------------------------------------------------
\* The monitor's lifecycle calls in any order, over each device file.
NextMonitor ==
    \/ \E file \in DeviceFiles : DmInit(TRUE, file)
    \/ BtcStart
    \/ \E body \in {"p1", NoPriceMessage} : BtcStartMessage(body)
    \/ BtcStop
    \/ BtcRestart

SpecMonitor == Init /\ [][NextMonitor]_vars

\* C36: the BTC price monitor runs at most one alert polling loop at any
\* time, whatever sequence of start, stop and restart calls was made, and
\* once stop() has returned no polling loop remains.
C36_AtMostOnePollingLoop ==
    /\ btc.loops <= 1
    /\ lastCall.op = "btcStop" => btc.loops = 0

-----------------------------------------------------------------------------
\* C37: the updater's job handle agrees with the registry after any sequence
\* of updater lifecycle calls and schedule/cancel requests:
\* exchangeRateUpdater.job is non-null exactly when the registry holds a job
\* named 'exchange-rate-update', and that job is the one the updater created.
C37_UpdaterJobMatchesRegistry ==
    /\ updaterJob # NULL <=> JOB_NAME \in DOMAIN jobs
    /\ JOB_NAME \in DOMAIN jobs => jobs[JOB_NAME] = updaterJob

-----------------------------------------------------------------------------
\* C38: at startup the device tokens are never read before the device
\* manager has finished initializing: under every interleaving of
\* initializeService with the listen callback, the step on which the
\* updater's start() goes on from _validateServices to getActiveTokens finds
\* the manager initialized and does not end the process.
C38_TokensReadAfterInit ==
    [][procs[0].pc = "validating" /\ procs'[0].pc # "validating"
        => initialized = "yes" /\ procs'[0].pc # "exited"]_vars

-----------------------------------------------------------------------------
\* C39: the remembered last-alert price and time change only at a poll
\* whose alert was handed to the gateway and accepted for at least one
\* message; a poll that decides to alert but dispatches nothing (no token,
\* dispatcher unavailable, or the send failing) leaves both as they were.
C39_AlertRememberedOnlyWhenSent ==
    [][btc.lastAlertPrice' # btc.lastAlertPrice \/ btc.lastAlertTime' # btc.lastAlertTime
        => \E i \in 1..Len(sends) :
             /\ sends[i].owner = BtcOwner
             /\ sends[i].st = "done"
             /\ sends[i].attempts > 0
             /\ Len(sends[i].tickets) > 0]_vars

-----------------------------------------------------------------------------
\* Registration r of token "t2" was answered with an error, and "t2" is a
\* token the device file never holds and no other request carried.
FailedAlone(r) ==
    /\ procs[r].pc = "done" /\ procs[r].status # 200
    /\ procs[r].token = "t2"
    /\ \A q \in RegIds \ {r} : procs[q].token # "t2"

\* C40: a registration request answered with an error leaves the device
\* registry unchanged: the device is stored only when the whole request
\* (store, test notification, updater restart) succeeds.
C40_FailedRegistrationStoresNothing ==
    \A r \in RegIds :
      FailedAlone(r) => \A i \in 1..Len(devices) : devices[i] # "t2"

====
